---- MODULE Spec2Model ----
(***************************************************************************)
(* ProjectPrompt: the request client (gemini_api.py, GeminiAPI), its token *)
(* ledger, and the generator of project_generator.py: ignore patterns,     *)
(* scan, selection, token-budget loader and generation of the document.    *)
(*                                                                         *)
(* One GeminiAPI object is the record `api`; one activation of             *)
(* call_gemini_api is the record `call`.  The operations are operators on  *)
(* the pair [api, call], so that the same code can be run on two clients.  *)
(***************************************************************************)
EXTENDS Integers, Sequences, FiniteSets, TLC

VARIABLES
    api,      \* the GeminiAPI object: counters, totals, ledger file, debug files
    call,     \* the running / last activation of call_gemini_api
    twin,     \* a second client [api, call] fed the same inputs (SpecPair only)
    tokenizer,\* the tokenizer handed to calculate_tokens
    vdb,      \* the VectorDatabaseManager object and the records of its collection
    gen,      \* ProjectPromptGenerator fields used by the loader
    load,     \* the activation of load_files_under_token_limit
    disk,     \* the project's files: path -> content, or "unreadable"
    used,     \* how many client operations the behaviour has invoked
    run       \* the activation of the generator method at work (scan, selection, generation)

vars == <<api, call, twin, tokenizer, vdb, gen, load, disk, used, run>>

---------------------------------------------------------------------------
(* Bounds of the model *)

MaxCalls == 1      \* call_gemini_api invocations per behaviour
MaxLogs == 1       \* direct log_token_accounting calls per behaviour
MaxFinalize == 1   \* finalize_token_accounting calls per behaviour
MaxFiles == 3      \* length of the selection list handed to the loader

---------------------------------------------------------------------------
(* token_utils.py *)

MAX_TOKENS == 1800000

\* A text is known by its length and by what the tokenizer counts for it.
Text(len, tok) == [len |-> len, tok |-> tok]

Tokenizers == {"none", "ok", "raises"}

\* calculate_tokens(text, tokenizer): the tokenizer's count, or len // 4 when
\* there is no tokenizer or count_tokens raises.
calculate_tokens(text, tk) ==
    IF tk = "ok" THEN text.tok ELSE text.len \div 4

---------------------------------------------------------------------------
(* gemini_api.py: the service's answers to one requests.post *)

\* One answer to requests.post.  kind "exception": requests.post raised, and
\* `quota` says whether str(e).lower() contains "quota exceeded".  kind
\* "http": a response with a status and a body; `form` is "empty" (response.text
\* is ""), "text" (not JSON) or "json"; `quota` says whether the body (for
\* JSON, the first 100 characters of json.dumps(result)) contains
\* "quota exceeded" in any letter case; `envelope` says whether the JSON holds
\* candidates[0].content.parts[0].text, and `text` is that text.
NoText == Text(0, 0)
ReplyTexts == {Text(8, 3), NoText}

Response(kind, status, form, quota, envelope, text) ==
    [kind |-> kind, status |-> status, form |-> form, quota |-> quota,
     envelope |-> envelope, text |-> text]

NoResponse == Response("none", 0, "empty", FALSE, FALSE, NoText)

\* The answers of the model: a transport exception with either message; a 429
\* with an empty, a non-JSON and a JSON body; a 200 with a non-JSON body, with
\* JSON of another shape (with and without the phrase) and with the envelope;
\* a 500 with and without the phrase in its body.
Responses ==
    {Response("exception", 0, "empty", q, FALSE, NoText) : q \in BOOLEAN}
    \cup {Response("http", 429, f, FALSE, FALSE, NoText) : f \in {"empty", "text", "json"}}
    \cup {Response("http", 200, "text", FALSE, FALSE, NoText)}
    \cup {Response("http", 200, "json", q, FALSE, NoText) : q \in BOOLEAN}
    \cup {Response("http", 200, "json", FALSE, TRUE, t) : t \in ReplyTexts}
    \cup {Response("http", 500, "text", q, FALSE, NoText) : q \in BOOLEAN}

---------------------------------------------------------------------------
(* gemini_api.py: GeminiAPI *)

\* GeminiAPI.__init__: an empty ledger file (header only), counters at 1,
\* totals at 0.
GeminiAPI(debug) ==
    [debug_ai_calls |-> debug,
     prompt_counter |-> 1,
     total_input_tokens |-> 0,
     total_output_tokens |-> 0,
     sequence_counter |-> 1,
     ledger |-> << >>,          \* rows appended to token_accounting.txt
     debug_files |-> {}]        \* <<number, kind>> of the files in DEBUG_API_CALLS_DIR

\* The source_file arguments of the model, and which of them contain "prompt"
\* in lower case.
SourceFiles == {"", "project_generator.py", "a.txt", "b.txt", "prompts/base.txt"}
ContainsPrompt(source_file) == source_file = "prompts/base.txt"

\* A faulty variant: the row records the two counts the wrong way round.
LedgerRow_Swapped(type, n, input_tokens, output_tokens) ==
    [type |-> type, n |-> n, input |-> output_tokens, output |-> input_tokens,
     total |-> input_tokens + output_tokens]

\* The row written at line 67: type, prompt number, input, output, total.
LedgerRow(type, n, input_tokens, output_tokens) ==
    [type |-> type, n |-> n, input |-> input_tokens, output |-> output_tokens,
     total |-> input_tokens + output_tokens]

\* log_token_accounting: add to the totals, classify the row as a file or a
\* prompt entry, append the row.
log_token_accounting(a, input_tokens, output_tokens, source_file) ==
    LET isFile == source_file # "" /\ ~ContainsPrompt(source_file)
        row == LedgerRow(IF isFile THEN "File" ELSE "Prompt",
                         IF isFile THEN 0 ELSE a.prompt_counter,
                         input_tokens, output_tokens)
    IN  [a EXCEPT !.total_input_tokens = @ + input_tokens,
                  !.total_output_tokens = @ + output_tokens,
                  !.prompt_counter = IF isFile THEN @ ELSE @ + 1,
                  !.ledger = Append(@, row)]

\* A faulty variant: the grand total leaves the output tokens out.
finalize_token_accounting_InputOnly(a) ==
    [a EXCEPT !.ledger = Append(@,
        [type |-> "GRAND TOTAL",
         n |-> a.prompt_counter - 1,
         input |-> a.total_input_tokens,
         output |-> a.total_output_tokens,
         total |-> a.total_input_tokens])]

\* finalize_token_accounting: append the grand-total row from the totals.
finalize_token_accounting(a) ==
    [a EXCEPT !.ledger = Append(@,
        [type |-> "GRAND TOTAL",
         n |-> a.prompt_counter - 1,
         input |-> a.total_input_tokens,
         output |-> a.total_output_tokens,
         total |-> a.total_input_tokens + a.total_output_tokens])]

\* A debug file is written only in debug mode; the same name overwrites.
WriteDebug(a, kind) ==
    IF a.debug_ai_calls
    THEN [a EXCEPT !.debug_files = @ \cup {<<a.sequence_counter, kind>>}]
    ELSE a

IncrementSequence(a) == [a EXCEPT !.sequence_counter = @ + 1]

\* A faulty variant: one attempt more than the bound.
max_retries_OffByOne == 3 + 1

max_retries == 3

\* The activation record of call_gemini_api before any call.  attempts counts
\* the requests.post calls, answered429 those answered with status 429, last is
\* the latest answer, cooldowns counts the 60 s waits.
NoCall ==
    [pc |-> "idle", prompt_tokens |-> 0, source_file |-> "", retry_count |-> 0,
     cool |-> "none", attempts |-> 0, answered429 |-> 0, last |-> NoResponse,
     cooldowns |-> 0,
     result |-> NoText, error |-> "none",
     ledger_at_call |-> 0, sequence_at_call |-> 1]

\* A faulty variant: a prompt of exactly MAX_TOKENS is refused.
ExceedsLimit_AtLimit(prompt_tokens) == prompt_tokens >= MAX_TOKENS

\* The token precheck of line 124.
ExceedsLimit(prompt_tokens) == prompt_tokens > MAX_TOKENS

\* call_gemini_api up to the retry loop: count the prompt's tokens, fail
\* locally when over the limit, else write the prompt debug file and enter the loop.
call_gemini_api(s, prompt, tk, source_file) ==
    LET prompt_tokens == calculate_tokens(prompt, tk)
        c0 == [NoCall EXCEPT !.prompt_tokens = prompt_tokens,
                             !.source_file = source_file,
                             !.ledger_at_call = Len(s.api.ledger),
                             !.sequence_at_call = s.api.sequence_counter]
    IN  IF ExceedsLimit(prompt_tokens)
        THEN [api |-> s.api, call |-> [c0 EXCEPT !.pc = "raised", !.error = "TokenLimit"]]
        ELSE [api |-> WriteDebug(s.api, "prompt"), call |-> [c0 EXCEPT !.pc = "post"]]

\* The guard of the except clause, line 275: retry only a "quota exceeded"
\* message, and only while fewer than two retries were counted.
RetryOnException(retry_count, quota) ==
    retry_count < max_retries - 1 /\ quota

\* except Exception as e (lines 274-290): count a retry and cool down, or count
\* the sequence number and re-raise.
Except(a, c, quota) ==
    IF RetryOnException(c.retry_count, quota)
    THEN [api |-> a,
          call |-> [c EXCEPT !.retry_count = @ + 1, !.pc = "cooldown", !.cool = "except"]]
    ELSE [api |-> IncrementSequence(a),
          call |-> [c EXCEPT !.pc = "raised", !.error = "Exception"]]

\* response.json(): raises on a body that is not JSON (an empty body included).
JsonRaises(r) == r.form # "json"

\* A faulty variant: in debug mode the error file cannot be written and the exception
\* ends the call.
Status429_DebugFails(a, c, r) ==
    IF a.debug_ai_calls \/ (r.form # "empty" /\ JsonRaises(r))
    THEN Except(a, c, FALSE)
    ELSE [api |-> a, call |-> [c EXCEPT !.pc = "cooldown", !.cool = "quota"]]

\* The 429 branch (lines 157-190).  error_data is parsed only from a non-empty
\* body; a body that is not JSON raises into the except clause with a decoder
\* message.  Otherwise the client cools down; retry_count is counted after the wait.
Status429(a, c, r) ==
    IF r.form # "empty" /\ JsonRaises(r)
    THEN Except(a, c, FALSE)
    ELSE LET a1 == WriteDebug(a, "error")
         IN  IF c.prompt_tokens <= MAX_TOKENS
             THEN [api |-> a1, call |-> [c EXCEPT !.pc = "cooldown", !.cool = "quota"]]
             ELSE Except(IncrementSequence(a1), c, TRUE)

\* The 200 branch (lines 193-256): the raw response file, the JSON decode, the
\* envelope test; on success one ledger entry, the extracted-text file, the
\* sequence number and the return; else an exception whose message holds the
\* first 100 characters of the JSON.
Status200(a, c, r, tk) ==
    LET a1 == WriteDebug(a, "response")
    IN  IF JsonRaises(r) THEN Except(a1, c, FALSE)
        ELSE IF r.envelope
        THEN LET response_tokens == calculate_tokens(r.text, tk)
                 a2 == log_token_accounting(a1, c.prompt_tokens, response_tokens,
                                            c.source_file)
                 a3 == WriteDebug(a2, "extracted_text")
             IN  [api |-> IncrementSequence(a3),
                  call |-> [c EXCEPT !.pc = "returned", !.result = r.text]]
        ELSE Except(IncrementSequence(WriteDebug(a1, "error_response")), c, r.quota)

\* Any other status (lines 257-273): an exception whose message holds response.text.
StatusOther(a, c, r) ==
    Except(IncrementSequence(WriteDebug(a, "http_error")), c, r.quota)

\* One iteration of the retry loop: requests.post and what follows it.
Post(s, r, tk) ==
    LET c == [s.call EXCEPT !.attempts = @ + 1, !.last = r,
                            !.answered429 = IF r.status = 429 THEN @ + 1 ELSE @]
    IN  IF r.kind = "exception" THEN Except(s.api, c, r.quota)
        ELSE IF r.status = 429 THEN Status429(s.api, c, r)
        ELSE IF r.status = 200 THEN Status200(s.api, c, r, tk)
        ELSE StatusOther(s.api, c, r)

\* A faulty variant: the 429 branch forgets to count its retry.
CountedAfterWait_Forgotten(c) == c.retry_count

\* retry_count after the wait: the 429 branch counts the retry after its wait
\* (line 183), the except clause has counted it before (line 277).
CountedAfterWait(c) ==
    IF c.cool = "quota" THEN c.retry_count + 1 ELSE c.retry_count

\* The 60 s wait, then the loop test of line 148; when the loop ends the call
\* fails with "Failed to call Gemini API after 3 attempts".
CoolDown(s) ==
    LET n == CountedAfterWait(s.call)
        c == [s.call EXCEPT !.retry_count = n, !.cooldowns = @ + 1, !.cool = "none"]
    IN  IF n < max_retries
        THEN [api |-> s.api, call |-> [c EXCEPT !.pc = "post"]]
        ELSE [api |-> IncrementSequence(s.api),
              call |-> [c EXCEPT !.pc = "raised", !.error = "Exhausted"]]

---------------------------------------------------------------------------
(* The client driven by an arbitrary caller *)

\* Prompts around the limit: a short one, one the tokenizer counts over the
\* limit and the estimate does not, and one the other way round.
Prompts ==
    {Text(8, 2), Text(4 * MAX_TOKENS + 3, MAX_TOKENS + 1), Text(4 * MAX_TOKENS + 4, MAX_TOKENS)}

\* Both callers pass source_file="project_generator.py".
CallSources == {"project_generator.py"}

\* Direct ledger entries: <<input_tokens, output_tokens, source_file>>.
LogEntries == {<<5, 0, "">>, <<4, 7, "a.txt">>}

NoTwin == [api |-> GeminiAPI(FALSE), call |-> NoCall]
NoGen == [ai_selected_files |-> << >>, important_files |-> << >>,
          file_contents |-> << >>, base_json |-> NoText]
\* The activation of load_files_under_token_limit: i indexes the candidate of
\* the for loop, accepted lists the candidates taken so far.
NoLoad == [pc |-> "idle", files_to_load |-> << >>, i |-> 1, base_tokens |-> 0,
           total_tokens |-> 0, file_contents |-> << >>, accepted |-> << >>]
NoUse == [calls |-> 0, logs |-> 0, finals |-> 0]
\* No generator method is at work.
NoRun == [pc |-> "idle"]
\* No VectorDatabaseManager is constructed.
NoVdb == [batches |-> 0]

Outside(c) == c.pc = "idle"
Ended(c) == c.pc \in {"returned", "raised"}

InitApi ==
    /\ api \in {GeminiAPI(d) : d \in BOOLEAN}
    /\ call = NoCall
    /\ twin = NoTwin
    /\ tokenizer \in Tokenizers
    /\ gen = NoGen
    /\ load = NoLoad
    /\ disk = << >>
    /\ used = NoUse
    /\ vdb = NoVdb
    /\ run = NoRun

Me == [api |-> api, call |-> call]

CallStep(prompt, source_file) ==
    /\ Outside(call)
    /\ used.calls < MaxCalls
    /\ LET s == call_gemini_api(Me, prompt, tokenizer, source_file)
       IN  api' = s.api /\ call' = s.call
    /\ used' = [used EXCEPT !.calls = @ + 1]
    /\ UNCHANGED <<tokenizer, vdb, gen, load, disk, run>>

PostStep(r) ==
    /\ call.pc = "post"
    /\ LET s == Post(Me, r, tokenizer)
       IN  api' = s.api /\ call' = s.call
    /\ UNCHANGED <<tokenizer, vdb, gen, load, disk, used, run>>

CoolDownStep ==
    /\ call.pc = "cooldown"
    /\ LET s == CoolDown(Me)
       IN  api' = s.api /\ call' = s.call
    /\ UNCHANGED <<tokenizer, vdb, gen, load, disk, used, run>>

\* The caller takes the returned text or catches the exception: the activation ends.
ReturnStep ==
    /\ Ended(call)
    /\ call' = NoCall
    /\ UNCHANGED <<api, tokenizer, vdb, gen, load, disk, used, run>>

LogStep(input_tokens, output_tokens, source_file) ==
    /\ Outside(call)
    /\ used.logs < MaxLogs
    /\ api' = log_token_accounting(api, input_tokens, output_tokens, source_file)
    /\ used' = [used EXCEPT !.logs = @ + 1]
    /\ UNCHANGED <<call, tokenizer, vdb, gen, load, disk, run>>

FinalizeStep ==
    /\ Outside(call)
    /\ used.finals < MaxFinalize
    /\ api' = finalize_token_accounting(api)
    /\ used' = [used EXCEPT !.finals = @ + 1]
    /\ UNCHANGED <<call, tokenizer, vdb, gen, load, disk, run>>

ApiCall == \E p \in Prompts, sf \in CallSources : CallStep(p, sf) /\ UNCHANGED twin
ApiPost == \E r \in Responses : PostStep(r) /\ UNCHANGED twin
ApiCoolDown == CoolDownStep /\ UNCHANGED twin
ApiReturn == ReturnStep /\ UNCHANGED twin
NextApi == ApiCall \/ ApiPost \/ ApiCoolDown \/ ApiReturn

SpecApi == InitApi /\ [][NextApi]_vars

---------------------------------------------------------------------------
(* The client and its ledger: calls, direct entries and the grand total *)

InitLedger ==
    /\ api = GeminiAPI(FALSE)
    /\ call = NoCall
    /\ twin = NoTwin
    /\ tokenizer \in {"none", "ok"}
    /\ gen = NoGen
    /\ load = NoLoad
    /\ disk = << >>
    /\ used = NoUse
    /\ vdb = NoVdb
    /\ run = NoRun

LedgerLog == \E e \in LogEntries : LogStep(e[1], e[2], e[3]) /\ UNCHANGED twin
LedgerFinalize == FinalizeStep /\ UNCHANGED twin

NextLedger ==
    ApiCall \/ ApiPost \/ ApiCoolDown \/ ApiReturn \/ LedgerLog \/ LedgerFinalize

SpecLedger == InitLedger /\ [][NextLedger]_vars

---------------------------------------------------------------------------
(* Two clients that differ only in debug_ai_calls, given the same inputs *)

InitPair ==
    /\ \E d \in BOOLEAN :
          /\ api = GeminiAPI(d)
          /\ twin = [api |-> GeminiAPI(~d), call |-> NoCall]
    /\ call = NoCall
    /\ tokenizer \in Tokenizers
    /\ gen = NoGen
    /\ load = NoLoad
    /\ disk = << >>
    /\ used = NoUse
    /\ vdb = NoVdb
    /\ run = NoRun

PairCall ==
    \E p \in Prompts, sf \in CallSources :
        /\ CallStep(p, sf)
        /\ twin' = IF Outside(twin.call) THEN call_gemini_api(twin, p, tokenizer, sf) ELSE twin

PairPost ==
    \E r \in Responses :
        /\ PostStep(r)
        /\ twin' = IF twin.call.pc = "post" THEN Post(twin, r, tokenizer) ELSE twin

PairCoolDown ==
    /\ CoolDownStep
    /\ twin' = IF twin.call.pc = "cooldown" THEN CoolDown(twin) ELSE twin

PairReturn ==
    /\ ReturnStep
    /\ twin' = IF Ended(twin.call) THEN [twin EXCEPT !.call = NoCall] ELSE twin

NextPair == PairCall \/ PairPost \/ PairCoolDown \/ PairReturn

SpecPair == InitPair /\ [][NextPair]_vars

---------------------------------------------------------------------------
(* project_generator.py: load_files_under_token_limit *)

Paths == {"a.txt", "b.txt"}

\* What read_file_content finds: a readable file with its content, or a file
\* whose open() raises.
FileTexts ==
    {Text(0, 0), Text(4, 1), Text(2800000, 700000), Text(6840000, 1710000)}
FileStates ==
    {[readable |-> TRUE, content |-> t] : t \in FileTexts}
    \cup {[readable |-> FALSE, content |-> NoText]}

\* "Error reading file: ..." stands for the content of an unreadable file.
ErrorMarker == Text(40, 12)

read_file_content(d, file_path) ==
    IF d[file_path].readable THEN d[file_path].content ELSE ErrorMarker

\* json.dumps(base_info): name, file count, rendered tree and README.
BaseTexts ==
    {Text(0, 0), Text(40000, 10000), Text(6840000, 1710000), Text(6840004, 1710001)}

\* total_tokens + content_tokens <= MAX_TOKENS * 0.95 (line 319); the float
\* product is exactly 1710000.0.
WithinLimit(total_tokens, content_tokens) ==
    (total_tokens + content_tokens) * 100 <= MAX_TOKENS * 95

\* The sequences over S of length at most n.
SeqsUpTo(S, n) == UNION {[1..k -> S] : k \in 0..n}

\* A dict with key k set to v.
DictSet(d, k, v) == [x \in DOMAIN d \cup {k} |-> IF x = k THEN v ELSE d[x]]

\* After selection either ai_selected_files holds the reconciled list and
\* important_files is empty, or ai_selected_files is empty and important_files
\* holds the fallback list.
InitLoad ==
    /\ api = GeminiAPI(FALSE)
    /\ call = NoCall
    /\ twin = NoTwin
    /\ tokenizer \in {"none", "ok"}
    /\ \E files \in SeqsUpTo(Paths, MaxFiles), byAi \in BOOLEAN, base \in BaseTexts :
          gen = [ai_selected_files |-> IF byAi THEN files ELSE << >>,
                 important_files |-> IF byAi THEN << >> ELSE files,
                 file_contents |-> << >>,
                 base_json |-> base]
    /\ load = NoLoad
    /\ disk \in [Paths -> FileStates]
    /\ used = NoUse
    /\ vdb = NoVdb
    /\ run = NoRun

\* Lines 284-311: choose the list, count the base information, log it.
LoadStart ==
    /\ load.pc = "idle"
    /\ LET files_to_load == IF gen.ai_selected_files = << >>
                            THEN gen.important_files ELSE gen.ai_selected_files
           total_tokens == calculate_tokens(gen.base_json, tokenizer)
       IN  /\ load' = [NoLoad EXCEPT !.pc = "loop", !.files_to_load = files_to_load,
                                     !.base_tokens = total_tokens,
                                     !.total_tokens = total_tokens]
           /\ api' = log_token_accounting(api, total_tokens, 0, "")
    /\ UNCHANGED <<call, twin, tokenizer, vdb, gen, disk, used, run>>

\* Lines 315-329: the candidate fits; keep its content, add its cost, log it.
LoadAccept ==
    /\ load.pc = "loop"
    /\ load.i <= Len(load.files_to_load)
    /\ LET file_path == load.files_to_load[load.i]
           content == read_file_content(disk, file_path)
           content_tokens == calculate_tokens(content, tokenizer)
       IN  /\ WithinLimit(load.total_tokens, content_tokens)
           /\ load' = [load EXCEPT !.file_contents = DictSet(@, file_path, content),
                                   !.total_tokens = @ + content_tokens,
                                   !.accepted = Append(@, file_path),
                                   !.i = @ + 1]
           /\ api' = log_token_accounting(api, content_tokens, 0, file_path)
    /\ UNCHANGED <<call, twin, tokenizer, vdb, gen, disk, used, run>>

\* A faulty variant: the loop goes on to the next candidate instead of stopping.
AfterReject_Continue(l) == [l EXCEPT !.i = @ + 1]

\* What follows a candidate that does not fit: break, then lines 334-336.
AfterReject(l) == [l EXCEPT !.pc = "done"]

\* Lines 330-336: the candidate does not fit; the loop ends and the method returns.
LoadBreak ==
    /\ load.pc = "loop"
    /\ load.i <= Len(load.files_to_load)
    /\ LET file_path == load.files_to_load[load.i]
           content_tokens == calculate_tokens(read_file_content(disk, file_path), tokenizer)
       IN  ~WithinLimit(load.total_tokens, content_tokens)
    /\ load' = AfterReject(load)
    /\ gen' = IF load'.pc = "done"
              THEN [gen EXCEPT !.file_contents = load.file_contents] ELSE gen
    /\ UNCHANGED <<api, call, twin, tokenizer, vdb, disk, used, run>>

\* Lines 334-336 after the last candidate.
LoadReturn ==
    /\ load.pc = "loop"
    /\ load.i > Len(load.files_to_load)
    /\ load' = [load EXCEPT !.pc = "done"]
    /\ gen' = [gen EXCEPT !.file_contents = load.file_contents]
    /\ UNCHANGED <<api, call, twin, tokenizer, vdb, disk, used, run>>

NextLoad == LoadStart \/ LoadAccept \/ LoadBreak \/ LoadReturn

SpecLoad == InitLoad /\ [][NextLoad]_vars

---------------------------------------------------------------------------
(* Strings and regular expressions *)

\* A string is the sequence of its characters.  The str operations used by
\* the generator: startswith, endswith, the `in` substring test, replace of one
\* character by another.
StartsWith(s, p) == Len(p) <= Len(s) /\ SubSeq(s, 1, Len(p)) = p
EndsWith(s, p) == Len(p) <= Len(s) /\ SubSeq(s, Len(s) - Len(p) + 1, Len(s)) = p
Contains(s, p) == \E i \in 1..(Len(s) - Len(p) + 1) : SubSeq(s, i, i + Len(p) - 1) = p
Replace(s, old, new) == [i \in 1..Len(s) |-> IF s[i] = old THEN new ELSE s[i]]

Range(seq) == {seq[i] : i \in 1..Len(seq)}

\* os.sep and os.path.join on a POSIX system.
sep == "/"
Join(a, b) == a \o <<sep>> \o b

\* A path given by its segments, as one string.
RECURSIVE JoinAll(_)
JoinAll(segments) ==
    IF Len(segments) = 1 THEN segments[1]
    ELSE Join(JoinAll(SubSeq(segments, 1, Len(segments) - 1)), segments[Len(segments)])

\* A regular expression without alternation is a sequence of tokens: a literal
\* character (written as itself or escaped), "." (any character) and ".*"
\* (any run of characters).  The strings of the model hold no newline.
Lit(c) == [kind |-> "lit", c |-> c]
AnyChar == [kind |-> "any", c |-> "."]
AnyRun == [kind |-> "run", c |-> ".*"]

\* A pattern text without wildcards, such as \.git or node_modules.
Lits(s) == [i \in 1..Len(s) |-> Lit(s[i])]

TokenMatches(token, c) == token.kind = "any" \/ (token.kind = "lit" /\ token.c = c)

\* The expression matches the whole of s.
RECURSIVE FullMatch(_, _)
FullMatch(re, s) ==
    IF re = << >> THEN s = << >>
    ELSE IF Head(re).kind = "run"
    THEN \E k \in 0..Len(s) : FullMatch(Tail(re), SubSeq(s, k + 1, Len(s)))
    ELSE s # << >> /\ TokenMatches(Head(re), Head(s)) /\ FullMatch(Tail(re), Tail(s))

\* One alternative of a pattern: ^ and $ anchor it to the start and the end.
Alt(start, re, end) == [start |-> start, re |-> re, end |-> end]

\* An expression without ".*" matches stretches of its own length only.
FixedLength(re) == \A k \in 1..Len(re) : re[k].kind # "run"

\* The stretches <<i, j>> of s that the anchors and the length of an
\* alternative allow it to match.
Stretches(a, s) ==
    LET starts == IF a.start THEN {1} ELSE 1..(Len(s) + 1)
        n == Len(a.re)
    IN  IF FixedLength(a.re)
        THEN {<<i, i + n - 1>> :
                 i \in {k \in starts : /\ k + n - 1 <= Len(s)
                                       /\ a.end => k + n - 1 = Len(s)}}
        ELSE {st \in starts \X (0..Len(s)) :
                 st[2] >= st[1] - 1 /\ (a.end => st[2] = Len(s))}

\* A pattern is the set of its alternatives A|B|C.  re.search(pattern, s): some
\* alternative matches some stretch of s that honours its anchors.
re_search(pattern, s) ==
    \E a \in pattern :
        \E st \in Stretches(a, s) : FullMatch(a.re, SubSeq(s, st[1], st[2]))

---------------------------------------------------------------------------
(* project_generator.py: the ignore patterns *)

Unanchored(text) == {Alt(FALSE, Lits(text), FALSE)}
AtEnd(text) == {Alt(FALSE, Lits(text), TRUE)}
AtStart(text) == {Alt(TRUE, Lits(text), FALSE)}

\* The folder names of lines 67-68.
DirectoryNames ==
    << <<"v", "e", "n", "d", "o", "r">>, <<"c", "a", "c", "h", "e">>,
       <<"l", "o", "g">>, <<"d", "i", "s", "t">>, <<"b", "u", "i", "l", "d">>,
       <<"t", "m", "p">>, <<"t", "e", "m", "p">>,
       <<"c", "o", "v", "e", "r", "a", "g", "e">> >>

\* self.ignored_patterns of __init__ (lines 61-69).
DefaultPatterns ==
    << Unanchored(<<".", "g", "i", "t">>),
       Unanchored(<<".", "v", "s", "c", "o", "d", "e">>),
       Unanchored(<<".", "i", "d", "e", "a">>),
       Unanchored(<<"_", "_", "p", "y", "c", "a", "c", "h", "e", "_", "_">>),
       Unanchored(<<"n", "o", "d", "e", "_", "m", "o", "d", "u", "l", "e", "s">>),
       AtEnd(<<".", "j", "p", "g">>), AtEnd(<<".", "j", "p", "e", "g">>),
       AtEnd(<<".", "p", "n", "g">>), AtEnd(<<".", "g", "i", "f">>),
       AtEnd(<<".", "s", "v", "g">>), AtEnd(<<".", "i", "c", "o">>),
       AtEnd(<<".", "w", "o", "f", "f">>), AtEnd(<<".", "w", "o", "f", "f", "2">>),
       AtEnd(<<".", "t", "t", "f">>), AtEnd(<<".", "e", "o", "t">>),
       AtEnd(<<".", "m", "p", "3">>), AtEnd(<<".", "m", "p", "4">>),
       AtEnd(<<".", "p", "d", "f">>), AtEnd(<<".", "z", "i", "p">>),
       AtEnd(<<".", "t", "a", "r">>), AtEnd(<<".", "g", "z">>) >>
    \o [i \in 1..Len(DirectoryNames) |-> Unanchored(DirectoryNames[i])]

\* re.escape: every character of the text stands for itself.
re_escape(pattern) == Lits(pattern)

\* pattern.replace('\\*', '.*') and pattern.replace('\\?', '.').
ReplaceToken(pattern, old, new) ==
    [i \in 1..Len(pattern) |-> IF pattern[i] = old THEN new ELSE pattern[i]]

\* A faulty variant: a directory rule compiled like a file rule.
DirPattern_AsFile(pattern) ==
    {Alt(TRUE, pattern, TRUE), Alt(FALSE, <<Lit("/")>> \o pattern, TRUE)}

\* Line 124: ^pattern$|^pattern/|/pattern/
DirPattern(pattern) ==
    {Alt(TRUE, pattern, TRUE),
     Alt(TRUE, pattern \o <<Lit("/")>>, FALSE),
     Alt(FALSE, <<Lit("/")>> \o pattern \o <<Lit("/")>>, FALSE)}

\* Line 127: ^pattern$|/pattern$
FilePattern(pattern) ==
    {Alt(TRUE, pattern, TRUE), Alt(FALSE, <<Lit("/")>> \o pattern, TRUE)}

\* Lines 101-127: one stripped line of .gitignore, neither blank nor a
\* comment, compiled to a pattern.
CompileLine(line) ==
    LET unrooted == IF StartsWith(line, <<"/">>) THEN Tail(line) ELSE line
        is_dir == EndsWith(unrooted, <<"/">>)
        name == IF is_dir THEN SubSeq(unrooted, 1, Len(unrooted) - 1) ELSE unrooted
        pattern == ReplaceToken(ReplaceToken(re_escape(name), Lit("*"), AnyRun),
                                Lit("?"), AnyChar)
    IN  IF is_dir THEN DirPattern(pattern) ELSE FilePattern(pattern)

\* line.strip() (line 95): the line without its surrounding white space.
RECURSIVE strip(_)
strip(line) ==
    IF line = << >> THEN line
    ELSE IF Head(line) = " " THEN strip(Tail(line))
    ELSE IF line[Len(line)] = " " THEN strip(SubSeq(line, 1, Len(line) - 1))
    ELSE line

\* Lines 96-97: blank lines and comments are skipped.
Skipped(line) == strip(line) = << >> \/ StartsWith(strip(line), <<"#">>)

\* add_gitignore_patterns: the patterns of the lines of .gitignore, appended
\* in order; no .gitignore is the empty list of lines.
RECURSIVE add_gitignore_patterns(_, _)
add_gitignore_patterns(ignored_patterns, lines) ==
    IF lines = << >> THEN ignored_patterns
    ELSE add_gitignore_patterns(
             IF Skipped(Head(lines)) THEN ignored_patterns
             ELSE Append(ignored_patterns, CompileLine(strip(Head(lines)))),
             Tail(lines))

\* A faulty variant: nothing is ever ignored.
should_ignore_Nothing(path, ignored_patterns) == FALSE

\* should_ignore (lines 383-384).
should_ignore(path, ignored_patterns) ==
    \E k \in 1..Len(ignored_patterns) : re_search(ignored_patterns[k], path)

\* ProjectPromptGenerator.__init__ in a project whose .gitignore holds the
\* given lines: empty lists, the default patterns and those of .gitignore.
ProjectPromptGenerator(root_dir, gitignore) ==
    [root_dir |-> root_dir,
     file_tree |-> << >>,
     important_files |-> << >>,
     ai_selected_files |-> << >>,
     file_contents |-> << >>,
     gitignore |-> gitignore,
     ignored_patterns |-> add_gitignore_patterns(DefaultPatterns, gitignore)]

---------------------------------------------------------------------------
(* The ignore patterns put to a path *)

MaxLine == 3       \* characters of a .gitignore line
MaxPath == 3       \* characters of a tested path over PathAlphabet

LineAlphabet == {"a", "/", "*", "?", ".", "#", " "}
IgnoreLines == UNION {[1..n -> LineAlphabet] : n \in 1..MaxLine}

\* Relative paths over two letters, and paths around the folder name log.
PathAlphabet == {"a", "b", "/"}
TestPaths ==
    {p \in UNION {[1..n -> PathAlphabet] : n \in 1..MaxPath} :
        /\ p[1] # "/" /\ p[Len(p)] # "/"
        /\ \A i \in 1..(Len(p) - 1) : ~(p[i] = "/" /\ p[i + 1] = "/")}
    \cup {<<"l", "o", "g">>, <<"b", "l", "o", "g">>, <<"l", "o", "g", ".", "c">>,
          <<"l", "o", "g", "/", "a">>, <<"a", "/", "l", "o", "g">>}

ProjectRoot == <<"/", "p">>

InitIgnore ==
    /\ api = GeminiAPI(FALSE)
    /\ call = NoCall
    /\ twin = NoTwin
    /\ tokenizer = "none"
    /\ gen \in {ProjectPromptGenerator(ProjectRoot, << >>)}
                \cup {ProjectPromptGenerator(ProjectRoot, <<line>>) : line \in IgnoreLines}
    /\ load = NoLoad
    /\ disk = << >>
    /\ used = NoUse
    /\ vdb = NoVdb
    /\ run = NoRun

\* should_ignore(path): which patterns find a match in the path.
IgnoreTest ==
    /\ run.pc = "idle"
    /\ \E path \in TestPaths \cup {strip(line) : line \in Range(gen.gitignore)} :
          run' = [pc |-> "tested", path |-> path,
                  matched_by |-> {k \in 1..Len(gen.ignored_patterns) :
                                     re_search(gen.ignored_patterns[k], path)},
                  ignored |-> should_ignore(path, gen.ignored_patterns)]
    /\ UNCHANGED <<api, call, twin, tokenizer, vdb, gen, load, disk, used>>

NextIgnore == IgnoreTest

SpecIgnore == InitIgnore /\ [][NextIgnore]_vars

---------------------------------------------------------------------------
(* project_generator.py: analyze_project_structure *)

MaxTree == 3       \* files of the project on disk

\* A file on disk is known by the segments of its path below the project root;
\* its directories are the proper prefixes of its path.
FilesIn(d, dir) ==
    {f \in DOMAIN d : Len(f) = Len(dir) + 1 /\ SubSeq(f, 1, Len(dir)) = dir}
SubdirsOf(d, dir) ==
    {SubSeq(f, 1, Len(dir) + 1) :
        f \in {g \in DOMAIN d : Len(g) > Len(dir) + 1 /\ SubSeq(g, 1, Len(dir)) = dir}}

\* The orders in which a directory listing can come.
Orders(S) ==
    {o \in [1..Cardinality(S) -> S] :
        \A i \in DOMAIN o : \A j \in DOMAIN o : o[i] = o[j] => i = j}

\* `root` of os.walk for the directory dir: the project root joined with the
\* path of the directory.
WalkRoot(root_dir, dir) ==
    IF dir = << >> THEN root_dir ELSE Join(root_dir, JoinAll(dir))

\* The path handed to should_ignore for the subdirectory d of dir (line 389).
DirTested(root_dir, d) ==
    Join(WalkRoot(root_dir, SubSeq(d, 1, Len(d) - 1)), d[Len(d)])

\* The path handed to should_ignore for a file (lines 393-399): the file name
\* in the root, else rel_path joined with the file name.
FileTested(f) == JoinAll(f)

\* The activation of analyze_project_structure: todo holds the directories
\* os.walk has still to yield, walked those it has yielded, pruned those
\* removed from dirs.
Walk == [pc |-> "walk", todo |-> << << >> >>, walked |-> {}, pruned |-> {}]

\* A project with files of unimportant content.
Plain == [readable |-> TRUE, content |-> Text(4, 1)]
Projects(files) ==
    UNION {[S -> {Plain}] : S \in {T \in SUBSET files : Cardinality(T) <= MaxTree}}

ScanStart ==
    /\ run.pc = "idle"
    /\ run' = Walk
    /\ UNCHANGED <<api, call, twin, tokenizer, vdb, gen, load, disk, used>>

\* One iteration of the for loop of line 387: the directory listing comes in
\* some order, dirs is filtered, the files that are not ignored are appended,
\* and os.walk goes on with the subdirectories kept, depth first.
ScanDir ==
    /\ run.pc = "walk"
    /\ run.todo # << >>
    /\ LET dir == Head(run.todo)
       IN  \E dirs \in Orders(SubdirsOf(disk, dir)), files \in Orders(FilesIn(disk, dir)) :
             LET Kept(d) == ~should_ignore(DirTested(gen.root_dir, d), gen.ignored_patterns)
                 Listed(f) == ~should_ignore(FileTested(f), gen.ignored_patterns)
                 kept == SelectSeq(dirs, Kept)
                 listed == SelectSeq(files, Listed)
                 todo == kept \o Tail(run.todo)
             IN  /\ gen' = [gen EXCEPT !.file_tree =
                               @ \o [i \in 1..Len(listed) |-> FileTested(listed[i])]]
                 /\ run' = [run EXCEPT !.pc = IF todo = << >> THEN "scanned" ELSE "walk",
                                       !.todo = todo,
                                       !.walked = @ \cup {dir},
                                       !.pruned = @ \cup (Range(dirs) \ Range(kept))]
    /\ UNCHANGED <<api, call, twin, tokenizer, vdb, load, disk, used>>

---------------------------------------------------------------------------
(* The scan of a project under its ignore patterns *)

ScanFiles ==
    { <<<<"a", ".", "c">>>>, <<<<"c", ".", "p", "n", "g">>>>, <<<<"l", "i", "b">>, <<"a", ".", "c">>>>, <<<<"l", "i", "b">>, <<"o", "u", "t">>, <<"a", ".", "c">>>>,
      <<<<"o", "u", "t">>, <<"a", ".", "c">>>>, <<<<"l", "o", "g">>, <<"a", ".", "c">>>> }

\* The project lies in /p or in /tmp/p.
Roots == { ProjectRoot, <<"/", "t", "m", "p", "/", "p">> }

\* No .gitignore, or one that names the directory out.
Gitignores == { << >>, <<<<"o", "u", "t", "/">>>> }

InitScan ==
    /\ api = GeminiAPI(FALSE)
    /\ call = NoCall
    /\ twin = NoTwin
    /\ tokenizer = "none"
    /\ gen \in {ProjectPromptGenerator(r, g) : r \in Roots, g \in Gitignores}
    /\ load = NoLoad
    /\ disk \in Projects(ScanFiles)
    /\ used = NoUse
    /\ vdb = NoVdb
    /\ run = NoRun

NextScan == ScanStart \/ ScanDir

SpecScan == InitScan /\ [][NextScan]_vars

\* analyze_project_structure called again on the same generator: file_tree is
\* created in __init__ (line 53) and only appended to, so the walk starts over
\* with the list as the scan before left it.  The list grows with every scan;
\* a new scan starts only while it holds at most MaxTree paths.
ScanAgain ==
    /\ run.pc = "scanned"
    /\ Len(gen.file_tree) <= MaxTree
    /\ run' = Walk
    /\ UNCHANGED <<api, call, twin, tokenizer, vdb, gen, load, disk, used>>

NextRescan == ScanStart \/ ScanDir \/ ScanAgain

SpecRescan == InitScan /\ [][NextRescan]_vars

---------------------------------------------------------------------------
(* project_generator.py: ask_ai_for_important_files *)

MaxCandidates == 2 \* lines of the advisory response

\* stem\.(a|b|c)$
WithExtensions(stem, extensions) == {Alt(FALSE, Lits(stem \o e), TRUE) : e \in extensions}

\* important_patterns (lines 409-424).
important_patterns ==
    <<
       AtEnd(<<"p", "a", "c", "k", "a", "g", "e", ".", "j", "s", "o", "n">>),
       AtEnd(<<"s", "e", "t", "u", "p", ".", "p", "y">>),
       AtEnd(<<"r", "e", "q", "u", "i", "r", "e", "m", "e", "n", "t", "s", ".", "t", "x", "t">>),
       AtEnd(<<"G", "e", "m", "f", "i", "l", "e">>),
       AtEnd(<<"c", "o", "m", "p", "o", "s", "e", "r", ".", "j", "s", "o", "n">>),
       AtEnd(<<".", "g", "i", "t", "i", "g", "n", "o", "r", "e">>),
       AtEnd(<<".", "e", "n", "v", ".", "e", "x", "a", "m", "p", "l", "e">>),
       AtEnd(<<"D", "o", "c", "k", "e", "r", "f", "i", "l", "e">>),
       AtEnd(<<"d", "o", "c", "k", "e", "r", "-", "c", "o", "m", "p", "o", "s", "e", ".", "y", "m", "l">>),
       Unanchored(<<".", "e", "s", "l", "i", "n", "t", "r", "c">>),
       AtEnd(<<"t", "s", "c", "o", "n", "f", "i", "g", ".", "j", "s", "o", "n">>),
       AtEnd(<<"w", "e", "b", "p", "a", "c", "k", ".", "c", "o", "n", "f", "i", "g", ".", "j", "s">>),
       WithExtensions(<<"i", "n", "d", "e", "x", ".">>, {<<"j", "s">>, <<"t", "s">>, <<"p", "y">>, <<"p", "h", "p">>, <<"h", "t", "m", "l">>}),
       WithExtensions(<<"a", "p", "p", ".">>, {<<"j", "s">>, <<"t", "s">>, <<"p", "y">>, <<"p", "h", "p">>}),
       WithExtensions(<<"m", "a", "i", "n", ".">>, {<<"j", "s">>, <<"t", "s">>, <<"p", "y">>, <<"p", "h", "p">>}),
       AtEnd(<<"R", "E", "A", "D", "M", "E", ".", "m", "d">>),
       AtEnd(<<"C", "O", "N", "T", "R", "I", "B", "U", "T", "I", "N", "G", ".", "m", "d">>),
       AtEnd(<<"L", "I", "C", "E", "N", "S", "E">>),
       AtStart(<<"s", "r", "c", "/">>),
       AtStart(<<"a", "p", "p", "/">>),
       AtStart(<<"l", "i", "b", "/">>),
       AtStart(<<"c", "o", "r", "e", "/">>),
       AtStart(<<"c", "o", "n", "t", "r", "o", "l", "l", "e", "r", "s", "/">>),
       AtStart(<<"m", "o", "d", "e", "l", "s", "/">>),
       AtStart(<<"v", "i", "e", "w", "s", "/">>),
       AtStart(<<"t", "e", "m", "p", "l", "a", "t", "e", "s", "/">>),
       AtStart(<<"p", "u", "b", "l", "i", "c", "/">>),
       AtStart(<<"t", "e", "s", "t", "s", "/">>),
       AtStart(<<"d", "o", "c", "s", "/">>) >>

\* A faulty variant: every file counts as important.
IsImportant_Always(file_path) == TRUE

\* Line 431.
IsImportant(file_path) ==
    \E k \in 1..Len(important_patterns) : re_search(important_patterns[k], file_path)

\* identify_important_files_fallback: the paths of the file tree, in its order,
\* that match an important pattern.
identify_important_files_fallback(file_tree) == SelectSeq(file_tree, IsImportant)

\* Lines 243-246: the lines of the response, stripped, blank ones dropped.
NotBlank(f) == f # << >>
ParseLines(lines) == SelectSeq([i \in 1..Len(lines) |-> strip(lines[i])], NotBlank)

\* Line 253: both separators become os.sep.
normalize(file) == Replace(Replace(file, "/", sep), "\\", sep)

\* A faulty variant: only a path that ends with the candidate is a partial match.
PartialMatch_SuffixOnly(normalized_file, existing_file) ==
    EndsWith(existing_file, normalized_file)

\* Line 261.
PartialMatch(normalized_file, existing_file) ==
    Contains(existing_file, normalized_file) \/ EndsWith(existing_file, normalized_file)

\* A faulty variant: the candidate itself is kept for a partial match.
PartialAppended_Candidate(normalized_file, existing_file) == normalized_file

\* Line 262: what a partial match appends to valid_files.
PartialAppended(normalized_file, existing_file) == existing_file

\* A faulty variant: the last partial match is taken instead of the first.
RECURSIVE ClosestMatch_Last(_, _, _)
ClosestMatch_Last(normalized_file, file_tree, k) ==
    IF k > Len(file_tree) THEN << >>
    ELSE LET later == ClosestMatch_Last(normalized_file, file_tree, k + 1)
         IN  IF later # << >> THEN later
             ELSE IF Contains(file_tree[k], normalized_file) THEN <<file_tree[k]>>
             ELSE << >>

\* Lines 260-267: the loop over the file tree from position k on; the first
\* partial match is taken, and nothing when there is none.
RECURSIVE ClosestMatch(_, _, _)
ClosestMatch(normalized_file, file_tree, k) ==
    IF k > Len(file_tree) THEN << >>
    ELSE IF PartialMatch(normalized_file, file_tree[k])
    THEN <<PartialAppended(normalized_file, file_tree[k])>>
    ELSE ClosestMatch(normalized_file, file_tree, k + 1)

\* Lines 251-267 for the candidates from position k on.
RECURSIVE Reconcile(_, _, _)
Reconcile(file_list, file_tree, k) ==
    IF k > Len(file_list) THEN << >>
    ELSE LET normalized_file == normalize(file_list[k])
         IN  (IF normalized_file \in Range(file_tree) THEN <<normalized_file>>
              ELSE ClosestMatch(normalized_file, file_tree, 1))
             \o Reconcile(file_list, file_tree, k + 1)

\* The text of a response with the given lines.
Reply(lines) == [len |-> 8, tok |-> 3, lines |-> lines]

\* The prompt of lines 195-230: short, or with a README that takes it over the limit.
SelectPrompts == {Text(8, 2), Text(4 * MAX_TOKENS + 4, MAX_TOKENS + 1)}

\* Lines 234-242: the call.  It may fail at once on the token limit.
SelectAsk ==
    /\ run.pc = "scanned"
    /\ \E prompt \in SelectPrompts :
          LET s == call_gemini_api(Me, prompt, tokenizer, "project_generator.py")
          IN  api' = s.api /\ call' = s.call
    /\ run' = [pc |-> "asking"]
    /\ UNCHANGED <<twin, tokenizer, vdb, gen, load, disk, used>>

\* Lines 243-272: the call has returned; parse, reconcile, store, return.
SelectReconcile ==
    /\ run.pc = "asking"
    /\ call.pc = "returned"
    /\ LET file_list == ParseLines(call.result.lines)
           valid_files == Reconcile(file_list, gen.file_tree, 1)
       IN  /\ gen' = [gen EXCEPT !.ai_selected_files = valid_files]
           /\ run' = [pc |-> "selected", fallback |-> FALSE, file_list |-> file_list,
                      returned |-> valid_files]
    /\ UNCHANGED <<api, call, twin, tokenizer, vdb, load, disk, used>>

\* Lines 273-278: the call has raised; the fallback list is stored and returned.
SelectFallback ==
    /\ run.pc = "asking"
    /\ call.pc = "raised"
    /\ LET important_files == identify_important_files_fallback(gen.file_tree)
       IN  /\ gen' = [gen EXCEPT !.important_files = important_files]
           /\ run' = [pc |-> "selected", fallback |-> TRUE, file_list |-> << >>,
                      returned |-> important_files]
    /\ UNCHANGED <<api, call, twin, tokenizer, vdb, load, disk, used>>

---------------------------------------------------------------------------
(* Scan and selection of a project *)

SelectFiles ==
    { <<<<"a", "p", "p", ".", "j", "s">>>>,
      <<<<"a", "p", "p", ".", "j", "s", ".", "m", "d">>>>,
      <<<<"x">>, <<"a", "p", "p", ".", "j", "s">>>>,
      <<<<"c", ".", "p", "n", "g">>>>,
      <<<<"c", ".", "p", "n", "g", ".", "m", "d">>>>,
      <<<<"l", "i", "b">>, <<"a", ".", "c">>>> }

\* Lines of an advisory response: a padded path, a path with the other
\* separator, an ignored file, a blank line.
CandidateLines ==
    { <<" ", "a", "p", "p", ".", "j", "s", " ">>,
      <<"x", "\\", "a", "p", "p", ".", "j", "s">>,
      <<"c", ".", "p", "n", "g">>,
      << >> }

\* The service's answers: the failures that are not retried, a 429, and a
\* well-formed 200 with a list of lines.
SelectResponses ==
    { Response("exception", 0, "empty", FALSE, FALSE, NoText),
      Response("http", 500, "text", FALSE, FALSE, NoText),
      Response("http", 200, "text", FALSE, FALSE, NoText),
      Response("http", 429, "json", FALSE, FALSE, NoText) }
    \cup {Response("http", 200, "json", FALSE, TRUE, Reply(lines)) :
             lines \in SeqsUpTo(CandidateLines, MaxCandidates)}

InitSelect ==
    /\ api = GeminiAPI(FALSE)
    /\ call = NoCall
    /\ twin = NoTwin
    /\ tokenizer = "none"
    /\ gen = ProjectPromptGenerator(ProjectRoot, << >>)
    /\ load = NoLoad
    /\ disk \in Projects(SelectFiles)
    /\ used = NoUse
    /\ vdb = NoVdb
    /\ run = NoRun

SelectPost == run.pc = "asking" /\ \E r \in SelectResponses : PostStep(r) /\ UNCHANGED twin
SelectCoolDown == run.pc = "asking" /\ CoolDownStep /\ UNCHANGED twin

NextSelect ==
    ScanStart \/ ScanDir \/ SelectAsk \/ SelectPost \/ SelectCoolDown
        \/ SelectReconcile \/ SelectFallback

SpecSelect == InitSelect /\ [][NextSelect]_vars

---------------------------------------------------------------------------
(* project_generator.py: generate_project_prompt *)

MaxListed == 2     \* length of the selection the advisory response left

\* os.path.dirname, os.path.basename and the depth dir_path.count(os.sep).
LastSep(path) ==
    IF \A i \in 1..Len(path) : path[i] # sep THEN 0
    ELSE CHOOSE i \in 1..Len(path) :
             path[i] = sep /\ \A j \in (i + 1)..Len(path) : path[j] # sep
dirname(path) == SubSeq(path, 1, LastSep(path) - 1)
basename(path) == SubSeq(path, LastSep(path) + 1, Len(path))
Depth(dir_path) == Cardinality({i \in 1..Len(dir_path) : dir_path[i] = sep})

\* generate_file_tree_string: the files are grouped by directory; the files of
\* the root come first, then one block per directory that holds a file, headed
\* by the directory's last segment and indented by its depth, with its file
\* names.  Files and blocks are printed sorted, so the text is given by the
\* groups.
generate_file_tree_string(file_tree) ==
    LET parts == Range(file_tree)
        dirs == {dirname(f) : f \in {p \in parts : LastSep(p) # 0}}
    IN  [root |-> {f \in parts : LastSep(f) = 0},
         dirs |-> [d \in dirs |->
                      [indent |-> Depth(d),
                       dir_name |-> basename(d),
                       files |-> {basename(f) : f \in {p \in parts : LastSep(p) # 0 /\ dirname(p) = d}}]]]

\* The characters of a file the fallback document shows (line 611).
FallbackLimit == 5000

\* Lines 611-615: a content of more than 5000 characters is cut to its first
\* 5000 and marked as truncated.
Shown(file_content) ==
    IF file_content.len > FallbackLimit
    THEN [len |-> FallbackLimit, truncated |-> TRUE]
    ELSE [len |-> file_content.len, truncated |-> FALSE]

\* A faulty variant: only the advisory selection is ever listed.
FallbackFiles_AiOnly(g) == g.ai_selected_files

\* Line 589: the advisory selection, or the heuristic list when that is empty.
FallbackFiles(g) ==
    IF g.ai_selected_files # << >> THEN g.ai_selected_files ELSE g.important_files

\* create_fallback_project_prompt: the document written to PROJECT_PROMPT.txt.
\* The section of technical details is extracted from file_contents alone.
create_fallback_project_prompt(g) ==
    [name |-> "PROJECT_PROMPT.txt",
     project_name |-> basename(g.root_dir),
     file_count |-> Len(g.file_tree),
     file_tree |-> generate_file_tree_string(g.file_tree),
     files_to_list |-> FallbackFiles(g),
     file_contents |-> [p \in DOMAIN g.file_contents |-> Shown(g.file_contents[p])]]

\* Lines 542-545: the header is put before the text, and the extension is
\* taken from the first character of the result, which is the header's "#".
file_extension(content) ==
    IF ~content.header /\ content.body.json THEN ".json" ELSE ".md"

\* Lines 532-548: the document written when the call has returned.
AiDocument(response) ==
    LET content == [header |-> TRUE, body |-> response]
    IN  [name |-> "PROJECT_PROMPT" \o file_extension(content), content |-> content]

\* The text of a response; json tells whether it begins with "{".
GenerateReply(json) == [len |-> 8, tok |-> 3, json |-> json]

\* The prompt of lines 467-520 with the project data: short, or over the limit.
GeneratePrompts == {Text(8, 2), Text(4 * MAX_TOKENS + 4, MAX_TOKENS + 1)}

\* Lines 450-531: the project data, the prompt, the call.  It may fail at once
\* on the token limit.
GenerateAsk ==
    /\ run.pc = "loaded"
    /\ \E prompt \in GeneratePrompts :
          LET s == call_gemini_api(Me, prompt, tokenizer, "project_generator.py")
          IN  api' = s.api /\ call' = s.call
    /\ run' = [pc |-> "generating"]
    /\ UNCHANGED <<twin, tokenizer, vdb, gen, load, disk, used>>

\* Lines 532-557: the call has returned; the document is written to the project
\* root and copied to the log directory, and the content is returned.
GenerateWrite ==
    /\ run.pc = "generating"
    /\ call.pc = "returned"
    /\ LET document == AiDocument(call.result)
       IN  run' = [pc |-> "generated", failed |-> FALSE,
                   project_root_file |-> document, log_file |-> document,
                   returned |-> "content"]
    /\ UNCHANGED <<api, call, twin, tokenizer, vdb, gen, load, disk, used>>

\* Lines 558-562 and 564-639: the call has raised; the fallback document is
\* written to the project root and copied to the log directory, and the method
\* returns None.
GenerateFallback ==
    /\ run.pc = "generating"
    /\ call.pc = "raised"
    /\ LET document == create_fallback_project_prompt(gen)
       IN  run' = [pc |-> "generated", failed |-> TRUE,
                   project_root_file |-> document, log_file |-> document,
                   returned |-> "None"]
    /\ UNCHANGED <<api, call, twin, tokenizer, vdb, gen, load, disk, used>>

\* run, lines 357-359: after step 5 the grand total is added to the ledger.
GenerateFinalize ==
    /\ run.pc = "generated"
    /\ api' = finalize_token_accounting(api)
    /\ run' = [run EXCEPT !.pc = "finalized"]
    /\ UNCHANGED <<call, twin, tokenizer, vdb, gen, load, disk, used>>

---------------------------------------------------------------------------
(* Generation for a project that was scanned, selected from and loaded *)

\* Snapshots in an order of os.walk: the files of a directory before those of
\* its subdirectories.
GenerateTrees ==
    { << >>,
      << <<"c", ".", "t", "x", "t">> >>,
      << <<"a", "p", "p", ".", "j", "s">>, <<"c", ".", "t", "x", "t">>,
         <<"x", "/", "o", "u", "t", "/", "a", ".", "c">> >>,
      << <<"c", ".", "t", "x", "t">>, <<"l", "i", "b", "/", "a", ".", "c">>,
         <<"l", "i", "b", "/", "o", "u", "t", "/", "a", ".", "c">> >> }

GenerateRoots == { ProjectRoot, <<"/", "w", "/", "q">> }

\* Loaded contents: short, of exactly 5000 characters, longer, and the marker
\* of an unreadable file.
GenerateTexts == {Text(4, 1), Text(FallbackLimit, 1250), Text(FallbackLimit + 1, 1251), ErrorMarker}

\* The answers of the service: the failures that are not retried, a 429, and a
\* well-formed 200.
GenerateResponses ==
    { Response("exception", 0, "empty", FALSE, FALSE, NoText),
      Response("http", 500, "text", FALSE, FALSE, NoText),
      Response("http", 200, "text", FALSE, FALSE, NoText),
      Response("http", 429, "json", FALSE, FALSE, NoText) }
    \cup {Response("http", 200, "json", FALSE, TRUE, GenerateReply(json)) : json \in BOOLEAN}

\* The state after load_files_under_token_limit: the selection is the advisory
\* one (possibly empty) or the heuristic one, and file_contents holds the
\* contents of the first files of the list that was loaded.
InitGenerate ==
    /\ api = GeminiAPI(FALSE)
    /\ call = NoCall
    /\ twin = NoTwin
    /\ tokenizer = "none"
    /\ \E root_dir \in GenerateRoots, file_tree \in GenerateTrees, byAi \in BOOLEAN :
       \E files \in SeqsUpTo(Range(file_tree), MaxListed) :
          LET g == [ProjectPromptGenerator(root_dir, << >>) EXCEPT
                       !.file_tree = file_tree,
                       !.ai_selected_files = IF byAi THEN files ELSE << >>,
                       !.important_files =
                           IF byAi THEN << >> ELSE identify_important_files_fallback(file_tree)]
              files_to_load == IF g.ai_selected_files = << >>
                               THEN g.important_files ELSE g.ai_selected_files
          IN  /\ ~byAi => files = << >>
              /\ \E k \in 0..Len(files_to_load) :
                 \E file_contents \in [{files_to_load[i] : i \in 1..k} -> GenerateTexts] :
                    gen = [g EXCEPT !.file_contents = file_contents]
    /\ load = NoLoad
    /\ disk = << >>
    /\ used = NoUse
    /\ vdb = NoVdb
    /\ run = [pc |-> "loaded"]

GeneratePost ==
    run.pc = "generating" /\ \E r \in GenerateResponses : PostStep(r) /\ UNCHANGED twin
GenerateCoolDown == run.pc = "generating" /\ CoolDownStep /\ UNCHANGED twin

NextGenerate ==
    GenerateAsk \/ GeneratePost \/ GenerateCoolDown \/ GenerateWrite
        \/ GenerateFallback \/ GenerateFinalize

SpecGenerate == InitGenerate /\ [][NextGenerate]_vars

---------------------------------------------------------------------------
(* project_generator.py: run *)

\* README.md in the project root.
Readme == <<<<"R", "E", "A", "D", "M", "E", ".", "m", "d">>>>

\* check_readme, lines 365-377: the README is read when it exists.
check_readme(g, d) ==
    IF Readme \in DOMAIN d
    THEN [g EXCEPT !.readme_exists = TRUE, !.readme_content = d[Readme].content]
    ELSE g

\* run, lines 339-343: step 1.
RunReadme ==
    /\ run.pc = "idle"
    /\ gen' = check_readme(gen, disk)
    /\ run' = [pc |-> "step2"]
    /\ UNCHANGED <<api, call, twin, tokenizer, vdb, load, disk, used>>

\* run, lines 345-346: step 2 starts the walk of analyze_project_structure.
RunScan ==
    /\ run.pc = "step2"
    /\ run' = Walk
    /\ UNCHANGED <<api, call, twin, tokenizer, vdb, gen, load, disk, used>>

\* run, lines 348-349: step 3 calls self.select_important_files(), a method
\* the class does not define; the attribute lookup raises AttributeError,
\* which run does not catch, and steps 4 to 6 are not executed.
RunSelect ==
    /\ run.pc = "scanned"
    /\ run' = [pc |-> "raised", error |-> "AttributeError"]
    /\ UNCHANGED <<api, call, twin, tokenizer, vdb, gen, load, disk, used>>

RunFiles ==
    { Readme, <<<<"a", ".", "c">>>>, <<<<"l", "i", "b">>, <<"a", ".", "c">>>>,
      <<<<"o", "u", "t">>, <<"a", ".", "c">>>>, <<<<"l", "o", "g">>, <<"a", ".", "c">>>> }

InitRun ==
    /\ api = GeminiAPI(FALSE)
    /\ call = NoCall
    /\ twin = NoTwin
    /\ tokenizer = "none"
    /\ gen \in {ProjectPromptGenerator(r, g) @@ [readme_exists |-> FALSE, readme_content |-> NoText] :
                  r \in Roots, g \in Gitignores}
    /\ load = NoLoad
    /\ disk \in Projects(RunFiles)
    /\ used = NoUse
    /\ vdb = NoVdb
    /\ run = NoRun

NextRun == RunReadme \/ RunScan \/ ScanDir \/ RunSelect

SpecRun == InitRun /\ [][NextRun]_vars

---------------------------------------------------------------------------
(* Scan, selection and load of a project, one method after the other *)

\* A faulty variant: the heuristic list is computed when nothing was selected.
FilesToLoad_Heuristic(g) ==
    IF g.ai_selected_files = << >>
    THEN identify_important_files_fallback(g.file_tree) ELSE g.ai_selected_files

\* Lines 284-288: the list the loader goes through.
FilesToLoad(g) ==
    IF g.ai_selected_files = << >> THEN g.important_files ELSE g.ai_selected_files

\* The file that os.path.join(root_dir, file_path) names (line 189).
FileAt(d, file_path) == CHOOSE f \in DOMAIN d : FileTested(f) = file_path

\* source_file of line 328: the path, written as the string the ledger takes.
RECURSIVE SourceFile(_)
SourceFile(file_path) ==
    IF Len(file_path) = 0 THEN "" ELSE file_path[1] \o SourceFile(Tail(file_path))

\* json.dumps(base_info) of lines 291-300: small, or with a README that
\* leaves room for no file.
StageBases == {Text(40000, 10000), Text(6840004, 1710001)}

\* Lines 284-311 on the generator the selection has left.
StageLoadStart ==
    /\ run.pc = "selected"
    /\ load.pc = "idle"
    /\ \E base_json \in StageBases :
          LET total_tokens == calculate_tokens(base_json, tokenizer)
          IN  /\ load' = [NoLoad EXCEPT !.pc = "loop", !.files_to_load = FilesToLoad(gen),
                                        !.base_tokens = total_tokens,
                                        !.total_tokens = total_tokens]
              /\ api' = log_token_accounting(api, total_tokens, 0, "")
    /\ UNCHANGED <<call, twin, tokenizer, vdb, gen, disk, used, run>>

\* Lines 315-329.
StageLoadAccept ==
    /\ load.pc = "loop"
    /\ load.i <= Len(load.files_to_load)
    /\ LET file_path == load.files_to_load[load.i]
           content == read_file_content(disk, FileAt(disk, file_path))
           content_tokens == calculate_tokens(content, tokenizer)
       IN  /\ WithinLimit(load.total_tokens, content_tokens)
           /\ load' = [load EXCEPT !.file_contents = DictSet(@, file_path, content),
                                   !.total_tokens = @ + content_tokens,
                                   !.accepted = Append(@, file_path),
                                   !.i = @ + 1]
           /\ api' = log_token_accounting(api, content_tokens, 0, SourceFile(file_path))
    /\ UNCHANGED <<call, twin, tokenizer, vdb, gen, disk, used, run>>

\* Lines 330-336.
StageLoadBreak ==
    /\ load.pc = "loop"
    /\ load.i <= Len(load.files_to_load)
    /\ LET file_path == load.files_to_load[load.i]
           content == read_file_content(disk, FileAt(disk, file_path))
       IN  ~WithinLimit(load.total_tokens, calculate_tokens(content, tokenizer))
    /\ load' = [load EXCEPT !.pc = "done"]
    /\ gen' = [gen EXCEPT !.file_contents = load.file_contents]
    /\ UNCHANGED <<api, call, twin, tokenizer, vdb, disk, used, run>>

StageFiles ==
    { <<<<"a", "p", "p", ".", "j", "s">>>>,
      <<<<"x">>, <<"a", "p", "p", ".", "j", "s">>>>,
      <<<<"l", "i", "b">>, <<"a", ".", "c">>>> }

\* A file is small, large, or cannot be read.
StageStates ==
    {Plain, [readable |-> TRUE, content |-> Text(6840000, 1710000)],
     [readable |-> FALSE, content |-> NoText]}

\* The service's answers: a failure, a 429, and a well-formed 200 with at
\* most one line.
StageResponses ==
    { Response("http", 500, "text", FALSE, FALSE, NoText),
      Response("http", 429, "json", FALSE, FALSE, NoText) }
    \cup {Response("http", 200, "json", FALSE, TRUE, Reply(lines)) :
             lines \in SeqsUpTo(CandidateLines, 1)}

InitStages ==
    /\ api = GeminiAPI(FALSE)
    /\ call = NoCall
    /\ twin = NoTwin
    /\ tokenizer = "none"
    /\ gen = ProjectPromptGenerator(ProjectRoot, << >>)
    /\ load = NoLoad
    /\ disk \in UNION {[S -> StageStates] : S \in SUBSET StageFiles}
    /\ used = NoUse
    /\ vdb = NoVdb
    /\ run = NoRun

StagePost == run.pc = "asking" /\ \E r \in StageResponses : PostStep(r) /\ UNCHANGED twin

NextStages ==
    ScanStart \/ ScanDir \/ SelectAsk \/ StagePost \/ SelectCoolDown
        \/ SelectReconcile \/ SelectFallback
        \/ StageLoadStart \/ StageLoadAccept \/ StageLoadBreak \/ LoadReturn

SpecStages == InitStages /\ [][NextStages]_vars

---------------------------------------------------------------------------
(* vector_db.py: VectorDatabaseManager *)

MaxBatches == 2    \* add_files calls per behaviour
MaxBatch == 2      \* paths of one add_files call

\* What the constructor finds: which imports succeeded (lines 19-47), whether
\* a model name and an API key are given, and whether SentenceTransformer(),
\* genai.configure() and chromadb.PersistentClient() succeed.
Environment(embeddings_available, model_name, model_loads, genai_available, api_key, configure_ok, chromadb_available, client_ok) ==
    [EMBEDDINGS_AVAILABLE |-> embeddings_available, model_name |-> model_name,
     model_loads |-> model_loads, GENAI_AVAILABLE |-> genai_available,
     api_key |-> api_key, configure_ok |-> configure_ok,
     CHROMADB_AVAILABLE |-> chromadb_available, client_ok |-> client_ok]

\* Lines 74-94: the choice of self.embedding_function.
EmbeddingFunction(env) ==
    IF env.EMBEDDINGS_AVAILABLE /\ env.model_name
    THEN IF env.model_loads THEN "_get_sentence_transformer_embeddings"
         ELSE "_get_fallback_embeddings"
    ELSE IF env.GENAI_AVAILABLE /\ env.api_key
    THEN IF env.configure_ok THEN "_get_genai_embeddings"
         ELSE "_get_fallback_embeddings"
    ELSE "_get_fallback_embeddings"

\* VectorDatabaseManager.__init__ on the persistent collection found at
\* db_path: records maps the ids of the collection to its records; added and
\* batches remember the paths of the add_files calls that returned True and
\* the number of add_files calls.
VectorDatabaseManager(env, records) ==
    [env |-> env,
     embedding_function |-> EmbeddingFunction(env),
     is_initialized |-> env.CHROMADB_AVAILABLE /\ env.client_ok,
     records |-> records,
     added |-> {},
     batches |-> 0,
     returned |-> "none"]

\* The keywords of line 145.
keywords ==
    << <<"c", "l", "a", "s", "s">>,
       <<"f", "u", "n", "c", "t", "i", "o", "n">>,
       <<"d", "e", "f">>,
       <<"i", "m", "p", "o", "r", "t">>,
       <<"e", "x", "p", "o", "r", "t">>,
       <<"c", "o", "n", "s", "t">>,
       <<"v", "a", "r">>,
       <<"l", "e", "t">>,
       <<"r", "e", "t", "u", "r", "n">>,
       <<"i", "f">>,
       <<"e", "l", "s", "e">>,
       <<"f", "o", "r">>,
       <<"w", "h", "i", "l", "e">>,
       <<"t", "r", "y">>,
       <<"c", "a", "t", "c", "h">>,
       <<"a", "s", "y", "n", "c">>,
       <<"a", "w", "a", "i", "t">>,
       <<"c", "o", "m", "p", "o", "n", "e", "n", "t">>,
       <<"m", "o", "d", "e", "l">>,
       <<"c", "o", "n", "t", "r", "o", "l", "l", "e", "r">>,
       <<"v", "i", "e", "w">>,
       <<"r", "o", "u", "t", "e">>,
       <<"d", "a", "t", "a", "b", "a", "s", "e">>,
       <<"s", "c", "h", "e", "m", "a">>,
       <<"a", "p", "i">>,
       <<"h", "t", "t", "p">>,
       <<"r", "e", "q", "u", "e", "s", "t">>,
       <<"r", "e", "s", "p", "o", "n", "s", "e">> >>

\* text.lower() on the letters of the model.
Lower(text) ==
    [i \in 1..Len(text) |->
        IF text[i] = "I" THEN "i" ELSE IF text[i] = "F" THEN "f" ELSE text[i]]

\* str.count: the occurrences of keyword in text that do not overlap, from the left.
RECURSIVE Count(_, _)
Count(text, keyword) ==
    IF Len(text) < Len(keyword) THEN 0
    ELSE IF SubSeq(text, 1, Len(keyword)) = keyword
    THEN 1 + Count(SubSeq(text, Len(keyword) + 1, Len(text)), keyword)
    ELSE Count(Tail(text), keyword)

RECURSIVE SumOfSquares(_, _)
SumOfSquares(embedding, k) ==
    IF k = 0 THEN 0 ELSE SumOfSquares(embedding, k - 1) + embedding[k] * embedding[k]

\* Line 153: the keyword counts of the lower-cased text.
Counted(text) == [k \in 1..Len(keywords) |-> Count(Lower(text), keywords[k])]

\* Lines 153-158 for one text.  The counts are whole numbers, so
\* the root of the sum of their squares is 0 or at least 1, and
\* max(sqrt(sum), 1e-6) is the root itself or, for a sum of 0, 1e-6.  The
\* embedding is kept as the counts, padded with zeros to 64, over the norm,
\* which is kept by its square: norm2 * 10^exp10.
FallbackEmbedding(text) ==
    LET embedding == Counted(text)
        sum == SumOfSquares(embedding, Len(embedding))
    IN  [kind |-> "keywords",
         x |-> embedding \o [k \in 1..(64 - Len(embedding)) |-> 0],
         norm2 |-> IF sum > 0 THEN sum ELSE 1,
         exp10 |-> IF sum > 0 THEN 0 ELSE -12]

\* _get_fallback_embeddings (lines 139-161): one embedding per text.
get_fallback_embeddings(texts) == [i \in 1..Len(texts) |-> FallbackEmbedding(texts[i])]

\* The vector a model or the service gives for a text; the model knows nothing of it.
ModelEmbedding == [kind |-> "model", x |-> << >>, norm2 |-> 1, exp10 |-> 0]

\* self.embedding_function(documents): the local model and the service may
\* raise, and then the keyword embeddings are returned (lines 112-114, 131-133).
Embeddings(m, documents, encode_ok) ==
    IF m.embedding_function = "_get_fallback_embeddings" \/ ~encode_ok
    THEN get_fallback_embeddings(documents)
    ELSE [i \in 1..Len(documents) |-> ModelEmbedding]

\* The ids of line 178: the position in the batch, from 0.
Ids(file_paths) == [i \in 1..Len(file_paths) |-> i - 1]

\* collection.add of the library: an id the collection holds already is
\* either left as it is, the new record being dropped ("ignore"), or makes the
\* whole call raise ("raise"), depending on the version of the library.
CollectionAdd(records, ids, new, on_duplicate) ==
    IF on_duplicate = "raise" /\ Range(ids) \cap DOMAIN records # {}
    THEN [raised |-> TRUE, records |-> records]
    ELSE [raised |-> FALSE,
          records |-> [id \in DOMAIN records \cup Range(ids) |->
                          IF id \in DOMAIN records THEN records[id]
                          ELSE new[CHOOSE i \in 1..Len(ids) : ids[i] = id]]]

\* add_files (lines 163-197).
add_files(m, file_paths, file_contents, encode_ok, on_duplicate) ==
    IF ~m.is_initialized
    THEN [m EXCEPT !.returned = "False", !.batches = @ + 1]
    ELSE LET ids == Ids(file_paths)
             documents == [i \in 1..Len(file_paths) |-> file_contents[file_paths[i]]]
             embeddings == Embeddings(m, documents, encode_ok)
             new == [i \in 1..Len(file_paths) |->
                        [path |-> file_paths[i], document |-> documents[i],
                         embedding |-> embeddings[i]]]
             result == CollectionAdd(m.records, ids, new, on_duplicate)
         IN  IF result.raised
             THEN [m EXCEPT !.returned = "False", !.batches = @ + 1]
             ELSE [m EXCEPT !.records = result.records,
                            !.added = @ \cup Range(file_paths),
                            !.returned = "True", !.batches = @ + 1]

---------------------------------------------------------------------------
(* A vector database that files are added to *)

VectorPaths == {"a.txt", "b.txt"}

\* Contents: one without a keyword, one with a keyword in capitals and again
\* in small letters.
VectorTexts == { <<"x">>, <<"I", "f", " ", "i", "f">> }

\* The environments: every outcome of the choice of the embedding function
\* with a working database, and a database that is missing or fails.
Environments ==
    {Environment(ea, ea, ml, ga, key, cf, TRUE, TRUE) :
        ea \in BOOLEAN, ml \in BOOLEAN, ga \in BOOLEAN, key \in BOOLEAN, cf \in BOOLEAN}
    \cup {Environment(FALSE, FALSE, FALSE, FALSE, FALSE, FALSE, ca, FALSE) : ca \in BOOLEAN}

InitVector ==
    /\ api = GeminiAPI(FALSE)
    /\ call = NoCall
    /\ twin = NoTwin
    /\ tokenizer = "none"
    /\ vdb \in {VectorDatabaseManager(env, << >>) : env \in Environments}
    /\ gen = NoGen
    /\ load = NoLoad
    /\ disk = << >>
    /\ used = NoUse
    /\ run = NoRun

\* One add_files call with a batch of distinct paths and their contents.
VectorAdd ==
    /\ vdb.batches < MaxBatches
    /\ \E files \in {S \in SUBSET VectorPaths : S # {} /\ Cardinality(S) <= MaxBatch} :
       \E file_paths \in Orders(files), file_contents \in [files -> VectorTexts],
          encode_ok \in BOOLEAN, on_duplicate \in {"ignore", "raise"} :
          vdb' = add_files(vdb, file_paths, file_contents, encode_ok, on_duplicate)
    /\ UNCHANGED <<api, call, twin, tokenizer, gen, load, disk, used, run>>

NextVector == VectorAdd

SpecVector == InitVector /\ [][NextVector]_vars

---------------------------------------------------------------------------
(* Claims about call_gemini_api *)

IsSuccess(r) == r.kind = "http" /\ r.status = 200 /\ r.form = "json" /\ r.envelope

\* C3: one invocation of call_gemini_api makes at most 3 network attempts,
\* whatever the service answers.
C3_AtMostThreeAttempts == call.attempts <= 3

C3_Witness == call.attempts = 3 /\ call.pc = "raised" /\ call.error = "Exhausted"

\* C4: after an attempt that ends in a failure other than a 429 no further
\* attempt is made, whatever the body holds.  Stated for the answers that are
\* HTTP responses: an attempt follows an HTTP answer only if it was a 429.
C4_NonQuotaFailureNeverRetried ==
    [][(call'.attempts = call.attempts + 1 /\ call.attempts > 0 /\ call.last.kind = "http")
          => call.last.status = 429]_vars

\* C5 as written: after three consecutive 429 answers (with a body the client
\* accepts) the call goes on to a fourth attempt, whose text it returns; so it
\* has not failed.
C5_ReturnsAfterThreeQuotaFailures ==
    (call.attempts = 3 /\ call.answered429 = 3 /\ call.last.form # "text")
        => call.pc \in {"cooldown", "post"}

\* C5 amended: a call that returns text returns the text of its latest attempt;
\* when the first two attempts were answered 429 and the third is answered with
\* a well-formed 200, the call returns the third attempt's text; after a third
\* 429 the call makes no fourth attempt and fails.
C5_ReturnsThirdAttempt ==
    /\ call.pc = "returned" => (IsSuccess(call.last) /\ call.result = call.last.text)
    /\ (call.attempts = 3 /\ call.answered429 = 2 /\ IsSuccess(call.last))
          => (call.pc = "returned" /\ call.result = call.last.text)
    /\ call.answered429 = 3
          => (call.attempts = 3 /\ call.pc \in {"cooldown", "raised"})

C5_Witness ==
    call.attempts = 3 /\ call.answered429 = 2 /\ call.pc = "returned"
    /\ call.result = Text(8, 3)

\* C6: whenever an attempt is answered 429 and fewer than 3 attempts were made,
\* the client cools down and attempts again, whatever the body of the 429 is.
C6_Every429IsRetried ==
    (call.last.status = 429 /\ call.attempts < 3) => call.pc \in {"cooldown", "post"}

\* C7: a prompt whose token cost exceeds MAX_TOKENS fails locally with no
\* network attempt and no retry; a cost of MAX_TOKENS or less passes the precheck.
C7_TokenPrecheck ==
    /\ (call.pc # "idle" /\ call.prompt_tokens > MAX_TOKENS)
          => (call.pc = "raised" /\ call.error = "TokenLimit"
              /\ call.attempts = 0 /\ call.cooldowns = 0 /\ call.retry_count = 0)
    /\ (call.pc # "idle" /\ call.prompt_tokens <= MAX_TOKENS)
          => call.error # "TokenLimit"

C7_Witness ==
    call.pc = "raised" /\ call.error = "TokenLimit" /\ call.prompt_tokens = MAX_TOKENS + 1

\* C8: a call that returns text has appended exactly one ledger entry, with the
\* prompt's token cost as input and the response text's token cost as output,
\* however many attempts it took; a call that is running or has failed has
\* appended none.
C8_OneEntryPerSuccessfulCall ==
    /\ call.pc = "returned" =>
          /\ Len(api.ledger) = call.ledger_at_call + 1
          /\ api.ledger[Len(api.ledger)].input = call.prompt_tokens
          /\ api.ledger[Len(api.ledger)].output = calculate_tokens(call.result, tokenizer)
    /\ call.pc \in {"post", "cooldown", "raised"} =>
          Len(api.ledger) = call.ledger_at_call

C8_Witness ==
    call.pc = "returned" /\ call.attempts = 3 /\ Len(api.ledger) = 1
    /\ api.ledger[1].output = 3

---------------------------------------------------------------------------
(* Claims about the ledger *)

IsEntry(row) == row.type # "GRAND TOTAL"

RECURSIVE SumInputs(_, _)
SumInputs(rows, k) ==
    IF k = 0 THEN 0
    ELSE SumInputs(rows, k - 1) + (IF IsEntry(rows[k]) THEN rows[k].input ELSE 0)

RECURSIVE SumOutputs(_, _)
SumOutputs(rows, k) ==
    IF k = 0 THEN 0
    ELSE SumOutputs(rows, k - 1) + (IF IsEntry(rows[k]) THEN rows[k].output ELSE 0)

\* C9: every grand-total row carries the sum of the input tokens of the entries
\* appended before it, the sum of their output tokens, and the sum of both.
C9_GrandTotalSumsEntries ==
    \A k \in 1..Len(api.ledger) :
        ~IsEntry(api.ledger[k]) =>
            /\ api.ledger[k].input = SumInputs(api.ledger, k - 1)
            /\ api.ledger[k].output = SumOutputs(api.ledger, k - 1)
            /\ api.ledger[k].total =
                   SumInputs(api.ledger, k - 1) + SumOutputs(api.ledger, k - 1)

C9_Witness ==
    /\ Len(api.ledger) = 3
    /\ IsEntry(api.ledger[1]) /\ IsEntry(api.ledger[2]) /\ ~IsEntry(api.ledger[3])
    /\ api.ledger[3].input = 6 /\ api.ledger[3].output = 10 /\ api.ledger[3].total = 16

---------------------------------------------------------------------------
(* Claim about the debug mode *)

\* What a caller and the ledger show of a client: the state of the call, its
\* outcome, the attempts and cool-downs, the ledger rows and the totals.
Observable(s) ==
    [pc |-> s.call.pc, result |-> s.call.result, error |-> s.call.error,
     attempts |-> s.call.attempts, cooldowns |-> s.call.cooldowns,
     ledger |-> s.api.ledger,
     total_input_tokens |-> s.api.total_input_tokens,
     total_output_tokens |-> s.api.total_output_tokens]

\* C10: two clients that differ only in debug_ai_calls and are given the same
\* prompts and the same answers show the same outcome, attempts, cool-downs,
\* ledger rows and totals.
C10_DebugModeDoesNotSteer ==
    api.debug_ai_calls # twin.api.debug_ai_calls => Observable(Me) = Observable(twin)

C10_Witness ==
    /\ api.debug_ai_calls # twin.api.debug_ai_calls
    /\ call.pc = "returned" /\ call.attempts = 2 /\ twin.call.pc = "returned"
    /\ api.debug_files \cup twin.api.debug_files
         = {<<1, "prompt">>, <<1, "error">>, <<1, "response">>, <<1, "extracted_text">>}

---------------------------------------------------------------------------
(* Claims about load_files_under_token_limit *)

\* The budget C*m of the claims: 0.95 * MAX_TOKENS.
Fits(tokens) == tokens * 100 <= 95 * MAX_TOKENS

Cost(file_path) == calculate_tokens(read_file_content(disk, file_path), tokenizer)

RECURSIVE PrefixCost(_, _)
PrefixCost(files, k) ==
    IF k = 0 THEN 0 ELSE PrefixCost(files, k - 1) + Cost(files[k])

\* C1: at every step of the loader and when it returns, the base cost plus the
\* sum of the costs of the accepted files is at most 0.95 * MAX_TOKENS, also
\* when no file is accepted.
C1_AcceptedWithinBudget ==
    load.pc # "idle" =>
        Fits(load.base_tokens + PrefixCost(load.accepted, Len(load.accepted)))

\* C2: when the loader returns, the accepted files are the longest prefix of the
\* selection list whose cumulative cost, starting from the base cost, stays
\* within 0.95 * MAX_TOKENS; nothing after the first candidate that does not fit
\* is accepted, and the content map holds exactly the accepted files.
C2_GreedyPrefix ==
    load.pc = "done" =>
        LET files == load.files_to_load
            n == Len(load.accepted)
        IN  /\ n <= Len(files)
            /\ load.accepted = SubSeq(files, 1, n)
            /\ \A j \in 1..n : Fits(load.base_tokens + PrefixCost(files, j))
            /\ n < Len(files) => ~Fits(load.base_tokens + PrefixCost(files, n + 1))
            /\ DOMAIN gen.file_contents = {files[j] : j \in 1..n}
            /\ \A f \in DOMAIN gen.file_contents :
                  gen.file_contents[f] = read_file_content(disk, f)

\* A later candidate that would have fitted was not taken.
C2_Witness ==
    /\ load.pc = "done"
    /\ Len(load.accepted) = 1
    /\ Len(load.files_to_load) = 3
    /\ Fits(load.total_tokens + Cost(load.files_to_load[3]))
    /\ load.files_to_load[3] \notin DOMAIN gen.file_contents

---------------------------------------------------------------------------
(* Claims about the ignore patterns *)

\* The segments of a path.
RECURSIVE Split(_)
Split(s) ==
    IF \A i \in 1..Len(s) : s[i] # "/" THEN <<s>>
    ELSE LET i == CHOOSE i \in 1..Len(s) :
                      s[i] = "/" /\ \A j \in 1..(i - 1) : s[j] # "/"
         IN  <<SubSeq(s, 1, i - 1)>> \o Split(SubSeq(s, i + 1, Len(s)))

HasSegment(path, name) == name \in Range(Split(path))

\* The pattern compiled from the only line of .gitignore comes after the defaults.
FromGitignore == Len(DefaultPatterns) + 1

IsRule == Len(gen.gitignore) = 1 /\ ~Skipped(gen.gitignore[1])

\* The text of the only line of .gitignore, without surrounding white space.
Rule == strip(gen.gitignore[1])

\* The line names a directory: name/ with a plain name.
IsDirectoryLine(line) ==
    /\ Len(line) >= 2
    /\ line[Len(line)] = "/"
    /\ \A i \in 1..(Len(line) - 1) : line[i] \notin {"/", "*", "?"}

\* C17: a rule that targets a directory name (a .gitignore line ending in '/',
\* or one of the built-in folder names) matches a project-relative path if and
\* only if the name is a complete segment of the path.
C17_DirectoryRuleMatchesSegments ==
    (run.pc = "tested" /\ run.path \in TestPaths) =>
        /\ \A i \in 1..Len(DirectoryNames) :
              (Len(DefaultPatterns) - Len(DirectoryNames) + i) \in run.matched_by
                  <=> HasSegment(run.path, DirectoryNames[i])
        /\ (IsRule /\ IsDirectoryLine(Rule)) =>
              (FromGitignore \in run.matched_by
                  <=> HasSegment(run.path, SubSeq(Rule, 1, Len(Rule) - 1)))

\* The rule matches a leading stretch of the path that ends at a segment boundary.
MatchesAtRoot(pattern, path) ==
    \E n \in 1..Len(path) :
        /\ n = Len(path) \/ path[n + 1] = "/"
        /\ FullMatch(pattern, SubSeq(path, 1, n))

\* The text of a rooted line between its leading '/' and its directory marker,
\* with the wildcards of the ignore file.
RootedGlob(line) ==
    LET rest == Tail(line)
        name == IF EndsWith(rest, <<"/">>) THEN SubSeq(rest, 1, Len(rest) - 1) ELSE rest
    IN  ReplaceToken(ReplaceToken(Lits(name), Lit("*"), AnyRun), Lit("?"), AnyChar)

\* C18: a .gitignore rule written with a leading '/' excludes a
\* project-relative path only when the pattern matches starting at the root of
\* the path; it never excludes a file of the same name in a subdirectory.
C18_RootedRuleIsAnchored ==
    (run.pc = "tested" /\ run.path \in TestPaths /\ IsRule
       /\ StartsWith(Rule, <<"/">>) /\ Len(Rule) >= 2
       /\ FromGitignore \in run.matched_by)
        => MatchesAtRoot(RootedGlob(Rule), run.path)

\* C19: the pattern compiled from a line of .gitignore that is neither blank
\* nor a comment finds a match in the text of the line itself (without its
\* surrounding white space), taken as a path.
C19_MatcherAcceptsItsLine ==
    (run.pc = "tested" /\ IsRule /\ run.path = Rule)
        => FromGitignore \in run.matched_by

C19_Witness ==
    /\ run.pc = "tested"
    /\ gen.gitignore = << <<"/", "?", "/">> >>
    /\ run.path = <<"/", "?", "/">>
    /\ FromGitignore \in run.matched_by
    /\ run.ignored

---------------------------------------------------------------------------
(* Claims about the scan *)

\* C16: a subdirectory met during the scan is pruned if and only if its path
\* relative to the project root matches some ignore pattern, wherever the
\* project root lies in the filesystem.
C16_PrunedIffRelativePathIgnored ==
    run.pc \in {"walk", "scanned"} =>
        \A d \in run.pruned \cup (run.walked \ {<< >>}) :
            d \in run.pruned <=> should_ignore(JoinAll(d), gen.ignored_patterns)

---------------------------------------------------------------------------
(* Claims about the selection *)

\* The snapshot: the paths of the file tree, and where a path stands in it.
Snapshot == Range(gen.file_tree)
Position(path) == CHOOSE i \in 1..Len(gen.file_tree) : gen.file_tree[i] = path

\* A candidate after separator normalization.
Normalized(c) == [i \in 1..Len(c) |-> IF c[i] = "\\" THEN "/" ELSE c[i]]

\* The snapshot positions whose path contains the candidate or ends with it.
Holders(c) ==
    {i \in 1..Len(gen.file_tree) :
        Contains(gen.file_tree[i], c) \/ EndsWith(gen.file_tree[i], c)}

\* What a candidate resolves to: itself when it is a snapshot path, else the
\* first snapshot path that holds it, else nothing.
Resolution(c) ==
    IF c \in Snapshot THEN <<c>>
    ELSE IF Holders(c) = {} THEN << >>
    ELSE <<gen.file_tree[CHOOSE i \in Holders(c) : \A j \in Holders(c) : i <= j]>>

RECURSIVE Resolutions(_, _)
Resolutions(candidates, k) ==
    IF k = 0 THEN << >>
    ELSE Resolutions(candidates, k - 1) \o Resolution(Normalized(candidates[k]))

BySelection == run.pc = "selected" /\ ~run.fallback
ByFallback == run.pc = "selected" /\ run.fallback

\* C11: reconciliation resolves each candidate of the response, after separator
\* normalization, to itself if it is a snapshot path (even when an earlier
\* snapshot path contains it), else to the first snapshot path in traversal
\* order that contains it or ends with it, else to nothing; the selection is
\* the list of the resolved paths in the order of the candidates.
C11_ReconciliationResolvesCandidates ==
    BySelection =>
        /\ run.returned = Resolutions(run.file_list, Len(run.file_list))
        /\ gen.ai_selected_files = run.returned

\* The candidate app.js is a snapshot path that stands after app.js.md; the
\* candidate x\app.js is the snapshot path x/app.js.
C11_Witness ==
    /\ BySelection
    /\ run.file_list = << <<"a", "p", "p", ".", "j", "s">>, <<"x", "\\", "a", "p", "p", ".", "j", "s">> >>
    /\ gen.file_tree = << <<"a", "p", "p", ".", "j", "s", ".", "m", "d">>, <<"a", "p", "p", ".", "j", "s">>, <<"x", "/", "a", "p", "p", ".", "j", "s">> >>
    /\ run.returned = << <<"a", "p", "p", ".", "j", "s">>, <<"x", "/", "a", "p", "p", ".", "j", "s">> >>

\* C12 as written: a candidate that is not itself a snapshot path and is a
\* suffix of exactly one snapshot path resolves to that path, whatever the
\* snapshot holds and in whatever order.  Stated for a response of one candidate.
C12_UniqueSuffixResolves ==
    (BySelection /\ Len(run.file_list) = 1) =>
        LET c == Normalized(run.file_list[1])
            ending == {p \in Snapshot : EndsWith(p, c)}
        IN  (c \notin Snapshot /\ Cardinality(ending) = 1) => Range(run.returned) = ending

\* C12 amended: a candidate that is not itself a snapshot path and is a suffix
\* of exactly one snapshot path resolves to that path when no snapshot path
\* before it in traversal order contains the candidate, and otherwise to the
\* first snapshot path that contains the candidate.
C12_UniqueSuffixResolvesUnlessHeldEarlier ==
    (BySelection /\ Len(run.file_list) = 1) =>
        LET c == Normalized(run.file_list[1])
            ending == {p \in Snapshot : EndsWith(p, c)}
        IN  (c \notin Snapshot /\ Cardinality(ending) = 1) =>
                LET p == CHOOSE q \in ending : TRUE
                    earlier == {i \in 1..(Position(p) - 1) : Contains(gen.file_tree[i], c)}
                IN  IF earlier = {} THEN run.returned = <<p>>
                    ELSE run.returned =
                        <<gen.file_tree[CHOOSE i \in earlier : \A j \in earlier : i <= j]>>

\* The candidate app.js ends exactly one snapshot path, which is not the first.
C12_Witness ==
    /\ BySelection
    /\ run.file_list = << <<"a", "p", "p", ".", "j", "s">> >>
    /\ gen.file_tree = << <<"c", ".", "p", "n", "g", ".", "m", "d">>, <<"x", "/", "a", "p", "p", ".", "j", "s">> >>
    /\ run.returned = << <<"x", "/", "a", "p", "p", ".", "j", "s">> >>

\* The paths of the snapshot that match an important pattern.
Important ==
    {p \in Snapshot : \E k \in 1..Len(important_patterns) : re_search(important_patterns[k], p)}

\* The list holds exactly the important paths, once each, in snapshot order.
IsHeuristicList(list) ==
    /\ Range(list) = Important
    /\ Len(list) = Cardinality(Important)
    /\ \A i \in 1..Len(list) : \A j \in 1..Len(list) :
          i < j => Position(list[i]) < Position(list[j])

C14_SelectionWithinSnapshot ==
    /\ Range(gen.ai_selected_files) \subseteq Snapshot
    /\ Range(gen.important_files) \subseteq Snapshot
    /\ run.pc = "selected" => Range(run.returned) \subseteq Snapshot
    /\ BySelection => Len(run.returned) <= Len(run.file_list)

\* The first candidate names no file of the snapshot and is dropped, the
\* second is resolved by its suffix.
C14_Witness ==
    /\ BySelection
    /\ run.file_list = << <<"c", ".", "p", "n", "g">>, <<"a", "p", "p", ".", "j", "s">> >>
    /\ gen.file_tree = << <<"x", "/", "a", "p", "p", ".", "j", "s">> >>
    /\ run.returned = << <<"x", "/", "a", "p", "p", ".", "j", "s">> >>

\* Some ignore pattern of the generator matches the project-relative path.
Excluded(path) ==
    \E k \in 1..Len(gen.ignored_patterns) : re_search(gen.ignored_patterns[k], path)

\* The scan has passed over an ignored file of the project.
OnDisk == {JoinAll(f) : f \in DOMAIN disk}

\* C15 as written: no path of the snapshot matches an ignore pattern, and a
\* candidate that names an ignored file is always dropped as unresolved.
\* Stated for a response of one candidate.
C15_IgnoredCandidateDropped ==
    /\ \A p \in Snapshot : ~Excluded(p)
    /\ (BySelection /\ Len(run.file_list) = 1 /\ Excluded(Normalized(run.file_list[1])))
          => run.returned = << >>

\* C15 amended: no path of the snapshot matches an ignore pattern, so no
\* selection holds an ignored file; a candidate that names an ignored file is
\* dropped exactly when no snapshot path contains its text, and is otherwise
\* resolved to the first snapshot path that contains it.
C15_IgnoredNeverSelected ==
    /\ \A p \in Snapshot : ~Excluded(p)
    /\ run.pc = "selected" => \A p \in Range(run.returned) : ~Excluded(p)
    /\ (BySelection /\ Len(run.file_list) = 1 /\ Excluded(Normalized(run.file_list[1])))
          => LET c == Normalized(run.file_list[1])
             IN  /\ run.returned = << >> <=> \A p \in Snapshot : ~Contains(p, c)
                 /\ run.returned # << >> => Contains(run.returned[1], c)

\* c.png is on disk, the scan has left it out, and the candidate c.png is dropped.
C15_Witness ==
    /\ BySelection
    /\ <<"c", ".", "p", "n", "g">> \in OnDisk
    /\ gen.file_tree = << <<"a", "p", "p", ".", "j", "s">> >>
    /\ run.file_list = << <<"a", "p", "p", ".", "j", "s">>, <<"c", ".", "p", "n", "g">> >>
    /\ run.returned = << <<"a", "p", "p", ".", "j", "s">> >>

---------------------------------------------------------------------------
(* Claim about the generation *)

\* The list the loader took its files from.
Selection ==
    IF gen.ai_selected_files = << >> THEN gen.important_files ELSE gen.ai_selected_files

\* The last segment of a path and the path without it.
Name(path) == Split(path)[Len(Split(path))]
Folder(path) == SubSeq(Split(path), 1, Len(Split(path)) - 1)

\* The rendered tree shows every path of the snapshot, and nothing else: a
\* file of the root among the root's files, another in the block of its
\* directory, headed by the directory's last segment.
ShowsSnapshot(tree) ==
    /\ tree.root = {p \in Snapshot : Len(Split(p)) = 1}
    /\ \A p \in Snapshot :
          Len(Split(p)) > 1 =>
              \E d \in DOMAIN tree.dirs :
                  /\ Split(d) = Folder(p)
                  /\ tree.dirs[d].dir_name = Folder(p)[Len(Folder(p))]
                  /\ tree.dirs[d].indent = Len(Folder(p)) - 1
                  /\ Name(p) \in tree.dirs[d].files
    /\ \A d \in DOMAIN tree.dirs : \A n \in tree.dirs[d].files :
          \E p \in Snapshot : Split(p) = Split(d) \o <<n>>

\* The document is the fallback document of the generator g: the project's
\* name, the number of files, the tree, the selection and the loaded contents,
\* each content cut after 5000 characters.
IsFallbackDocument(document) ==
    /\ document.name = "PROJECT_PROMPT.txt"
    /\ document.project_name = Split(gen.root_dir)[Len(Split(gen.root_dir))]
    /\ document.file_count = Cardinality(Snapshot)
    /\ ShowsSnapshot(document.file_tree)
    /\ document.files_to_list = Selection
    /\ DOMAIN document.file_contents = DOMAIN gen.file_contents
    /\ \A p \in DOMAIN gen.file_contents :
          LET shown == document.file_contents[p]
              loaded == gen.file_contents[p]
          IN  /\ shown.len = IF loaded.len <= 5000 THEN loaded.len ELSE 5000
              /\ shown.truncated = (loaded.len > 5000)

\* C20: when the generative call has failed, for whatever reason,
\* generate_project_prompt does not raise: its next step writes the fallback
\* document (project name, file count, file tree, selected files, loaded
\* contents) to the project root and to the log directory and returns; and
\* once generate_project_prompt has returned after a failure the run goes on
\* to its next step, the grand total of the ledger.
C20_GenerationFailureFallsBack ==
    [][/\ (run.pc = "generating" /\ call.pc = "raised") =>
              /\ run'.pc = "generated" /\ run'.failed
              /\ IsFallbackDocument(run'.project_root_file)
              /\ run'.log_file = run'.project_root_file
              /\ gen' = gen
       /\ (run.pc = "generated" /\ run.failed) =>
              /\ run'.pc = "finalized"
              /\ Len(api'.ledger) = Len(api.ledger) + 1]_vars

\* The retries were used up; the heuristic selection of two files is listed,
\* one content is shown whole and one is cut, and the run has gone on.
C20_Witness ==
    /\ run.pc = "finalized" /\ run.failed
    /\ call.error = "Exhausted" /\ call.attempts = 3
    /\ gen.ai_selected_files = << >>
    /\ run.project_root_file.project_name = <<"q">>
    /\ run.project_root_file.file_count = 3
    /\ run.project_root_file.files_to_list =
           << <<"l", "i", "b", "/", "a", ".", "c">>,
              <<"l", "i", "b", "/", "o", "u", "t", "/", "a", ".", "c">> >>
    /\ \E p \in DOMAIN run.project_root_file.file_contents :
          run.project_root_file.file_contents[p].truncated
    /\ \E p \in DOMAIN run.project_root_file.file_contents :
          ~run.project_root_file.file_contents[p].truncated

---------------------------------------------------------------------------
(* Claims about the debug sequence number and the cool-down *)

\* C27: over an invocation of call_gemini_api that passes the token precheck
\* the sequence number grows by exactly one, on the success path and on every
\* failure path, and it does not change while the invocation is at work, so
\* that all its debug files carry the number it started with.
C27_SequenceAdvancesByOne ==
    /\ (Ended(call) /\ call.error # "TokenLimit")
          => api.sequence_counter = call.sequence_at_call + 1
    /\ call.pc \in {"post", "cooldown"}
          => api.sequence_counter = call.sequence_at_call

\* C28: within one invocation every cool-down is followed by another network
\* attempt: the step after the 60 s wait is never the failure of the call.
C28_CoolDownThenAttempt ==
    [][call.pc = "cooldown" => call'.pc = "post"]_vars

---------------------------------------------------------------------------
(* Claim about the loader's running total *)

\* The sum of the costs of a set of files, each counted once.
RECURSIVE CostOf(_)
CostOf(files) ==
    IF files = {} THEN 0
    ELSE LET f == CHOOSE f \in files : TRUE
         IN  Cost(f) + CostOf(files \ {f})

\* C29: when the loader returns, its running total is the base cost plus the
\* costs of the files of the content map, each counted once, also when the
\* selection list names a path twice.
C29_TotalCountsEachFileOnce ==
    load.pc = "done" =>
        load.total_tokens = load.base_tokens + CostOf(DOMAIN gen.file_contents)

---------------------------------------------------------------------------
(* Claim about repeated scans *)

\* C23: after any number of scans on one generator no relative path stands
\* more than once in file_tree.
C23_SnapshotPathsUnique ==
    \A i \in 1..Len(gen.file_tree) : \A j \in 1..Len(gen.file_tree) :
        gen.file_tree[i] = gen.file_tree[j] => i = j

---------------------------------------------------------------------------
(* Claim about exhausted retries *)

\* C21: when a call has used its 3 attempts on quota failures, during the
\* selection or during the generation, the run ends there with a fatal
\* failure: the stage that made the call does not complete, and no later
\* stage is reached.
C21_ExhaustedRetriesAreFatal ==
    (call.pc = "raised" /\ call.error = "Exhausted")
        => run.pc \notin {"selected", "generated", "finalized"}

---------------------------------------------------------------------------
(* Claims about the vector database *)

\* The square of the length of an embedding is the sum of the squares of its
\* numbers over norm2 * 10^exp10: the length is 1 when the two are equal.
HasUnitNorm(embedding) ==
    /\ embedding.exp10 = 0
    /\ SumOfSquares(embedding.x, Len(embedding.x)) = embedding.norm2

\* C24: the keyword embedding of every text that is not empty has length 1,
\* also when the text holds none of the keywords.
C24_FallbackEmbeddingHasUnitNorm ==
    vdb.batches > 0 =>
        \A id \in DOMAIN vdb.records :
            (vdb.records[id].embedding.kind = "keywords" /\ vdb.records[id].document # << >>)
                => HasUnitNorm(vdb.records[id].embedding)

\* The first usable backend in the order local model, service, keywords.
FirstUsable(env) ==
    IF env.EMBEDDINGS_AVAILABLE /\ env.model_name /\ env.model_loads
    THEN "_get_sentence_transformer_embeddings"
    ELSE IF env.GENAI_AVAILABLE /\ env.api_key /\ env.configure_ok
    THEN "_get_genai_embeddings"
    ELSE "_get_fallback_embeddings"

\* C25: the embedding function chosen at construction is the first usable one
\* in the order local model, remote service, keyword counts; when the local
\* model cannot be loaded and a credential is configured, it is the service.
C25_FirstUsableBackendChosen ==
    vdb # NoVdb => vdb.embedding_function = FirstUsable(vdb.env)

\* The ids of the records of a path.
RecordsOf(path) == {id \in DOMAIN vdb.records : vdb.records[id].path = path}

\* C26: after any sequence of add_files calls that returned True the
\* collection holds exactly one record for every path that was added.
C26_OneRecordPerAddedPath ==
    vdb # NoVdb => \A path \in vdb.added : Cardinality(RecordsOf(path)) = 1

---------------------------------------------------------------------------
(* Claim about the stages of run *)

\* C22: every run goes through its six stages in order and, whatever the
\* outcomes of its calls, ends with finalize_token_accounting as its last
\* ledger write: when a run has ended, the ledger ends with the grand-total
\* row and holds exactly one such row.
GrandTotals(ledger) == {i \in DOMAIN ledger : ledger[i].type = "GRAND TOTAL"}
C22_RunEndsWithGrandTotal ==
    run.pc \in {"raised", "finalized"} =>
        /\ Cardinality(GrandTotals(api.ledger)) = 1
        /\ Len(api.ledger) \in GrandTotals(api.ledger)

---------------------------------------------------------------------------
(* Claim about a selection that resolves nothing *)

\* A candidate resolves when it is a path of the snapshot, or a part or the
\* end of one.
Resolves(candidate, file_tree) ==
    \E k \in DOMAIN file_tree :
        \/ file_tree[k] = normalize(candidate)
        \/ Contains(file_tree[k], normalize(candidate))
        \/ EndsWith(file_tree[k], normalize(candidate))
NoneResolves ==
    /\ run.pc = "selected"
    /\ call.pc = "returned"
    /\ \A i \in DOMAIN run.file_list : ~Resolves(run.file_list[i], gen.file_tree)

\* C30: the heuristic list is computed only when the advisory call fails.
\* When the call succeeds and no candidate resolves to a snapshot path,
\* ai_selected_files is empty and important_files stays empty, and the load
\* that follows accepts no file and writes only the row of the base
\* information to the ledger.
C30_NoHeuristicAfterSuccess ==
    /\ gen.important_files # << >> => call.pc = "raised"
    /\ NoneResolves =>
          /\ gen.ai_selected_files = << >>
          /\ gen.important_files = << >>
          /\ load.pc # "idle" => load.files_to_load = << >>
          /\ load.pc = "done" =>
                /\ load.accepted = << >>
                /\ gen.file_contents = << >>
                /\ Len(api.ledger) = call.ledger_at_call + 2
                /\ LET row == api.ledger[Len(api.ledger)]
                   IN  /\ row.type = "Prompt"
                       /\ row.input = load.base_tokens
                       /\ row.output = 0

\* A load has returned after a successful call that named a file the
\* snapshot does not hold, on a project where the heuristic finds a file.
C30_Witness ==
    /\ NoneResolves
    /\ run.file_list # << >>
    /\ load.pc = "done"
    /\ \E k \in DOMAIN gen.file_tree :
          \E j \in 1..Len(important_patterns) : re_search(important_patterns[j], gen.file_tree[k])


====
